---- MODULE Spec2Model ----
(***************************************************************************)
(* Verification model of the "Auto Git Message" VS Code extension          *)
(* (src/src/extension.ts).                                                 *)
(*                                                                         *)
(* Ten specifications share  the variables below:                          *)
(*   SpecHistory : addToCommitHistory and clear-history under a wall clock *)
(*               that may stand still, advance and step back               *)
(*   SpecFavorites : addToFavorites with more favorites than history may   *)
(*               have entries                                              *)
(*   SpecAnalyze : analyzeChangeContext on lists of staged paths           *)
(*   SpecStore : the history / favorites store (getCommitHistory,          *)
(*               addToCommitHistory, getFavoriteCommits, addToFavorites,   *)
(*               removeFromFavorites, the two clear operations)            *)
(*   SpecParse : the response parser of generateCommitMessagesWithAI       *)
(*   SpecPrompt : generateContextAwarePrompt on contexts and styles         *)
(*   SpecInsert : insertCommitMessage against what VS Code may answer      *)
(*   SpecOverlap : two executions of addToCommitHistory that overlap       *)
(*   SpecContext : the registered key, provider and model commands and the *)
(*               context key 'commitAi.apiKeyConfigured'                   *)
(*   Spec      : the command handlers as interleaved asynchronous flows    *)
(*                                                                         *)
(* Texts whose characters matter (responses, diffs, error messages) are    *)
(* sequences of one-character strings.  Texts that the code only compares  *)
(* for equality (messages in the store specification, provider and model   *)
(* names, API keys) are atoms.                                             *)
(***************************************************************************)
EXTENDS Integers, Sequences, FiniteSets, TLC

VARIABLES
    history,      \* globalState[COMMIT_HISTORY_KEY]   : Seq(CommitMessageItem)
    favorites,    \* globalState[COMMIT_FAVORITES_KEY] : Seq(CommitMessageItem)
    now,          \* the value Date.now() returned last
    ticks,        \* how often the wall clock has advanced
    backSteps,    \* how often the wall clock has stepped backwards
    inserted,     \* messages added to history since the last clear, oldest first
    lastOp,       \* the store operation performed last (front: the message
                  \* offered was the one stored first)
    response,     \* raw response text handed to the parser
    parsed,       \* what the parser made of it
    listing,      \* outcome of 'git diff --staged --name-only'
    analysis,     \* what analyzeChangeContext made of it
    promptInput,  \* arguments of generateContextAwarePrompt
    prompt,       \* the prompt it returned
    config,       \* workspace configuration 'commitAi': provider, model, apiEndpoint
    secrets,      \* context.secrets: provider of the secret name -> key
    gen,          \* the execution of generateCommitMessage: position and locals
    run,          \* what that execution has done so far
    sel,          \* the execution of selectAIProvider
    keyCmd,       \* the execution of the setApiKey / clearApiKey command
    started,      \* how many executions of each command were started
    ins,          \* an execution of insertCommitMessage and what it can see
    adds,         \* two executions of addToCommitHistory: position and locals
    cmd           \* the registered command that runs, and the context key
                  \* 'commitAi.apiKeyConfigured'

storeVars == <<history, favorites>>
clockVars == <<now, ticks, backSteps>>
traceVars == <<inserted, lastOp>>
parseVars == <<response, parsed>>
analyzeVars == <<listing, analysis>>
promptVars == <<promptInput, prompt>>
flowVars == <<config, secrets, gen, run, sel, keyCmd, started>>

auxVars == <<ins, adds, cmd>>

vars == <<storeVars, clockVars, traceVars, parseVars, analyzeVars, promptVars, flowVars,
          auxVars>>

----------------------------------------------------------------------------
(* Bounds *)

MaxFresh == 21       \* distinct messages offered to addToCommitHistory
MaxTicks == 1        \* forward steps of the wall clock
MaxBackSteps == 1    \* backward steps of the wall clock
MaxFav == 2          \* distinct messages offered to addToFavorites
MaxFavorites == 21   \* favorites stored in SpecFavorites
MaxStoreHistory == 2 \* distinct messages offered to addToCommitHistory in SpecStore
MaxLen == 7          \* length of a raw response text
MaxPaths == 3        \* staged paths in SpecAnalyze
MaxGenerate == 1     \* executions of generateCommitMessage
MaxSelect == 1       \* executions of selectAIProvider
MaxKeyCommands == 1  \* executions of the setApiKey and clearApiKey commands

\* insertCommitMessage: how many repositories the git API may report.
MaxRepositories == 2

\* Overlapping addToCommitHistory: how many messages not yet stored may be added.
MaxOverlapMessages == 2

\* Registered commands run one after the other.
MaxCommands == 2

(* Program constants *)

MAX_HISTORY_ITEMS == 20
MAX_MESSAGES == 3
MAX_BUFFER == 1024 * 1024

----------------------------------------------------------------------------
(* Generic helpers *)

Min(a, b) == IF a < b THEN a ELSE b

Range(s) == {s[i] : i \in DOMAIN s}

Reverse(s) == [i \in 1..Len(s) |-> s[Len(s) + 1 - i]]

LastN(s, n) == IF Len(s) <= n THEN s ELSE SubSeq(s, Len(s) - n + 1, Len(s))

Messages(list) == [i \in DOMAIN list |-> list[i].message]

----------------------------------------------------------------------------
(* The history / favorites store *)

\* Array.prototype.sort((a, b) => b.timestamp - a.timestamp): a stable sort,
\* larger timestamps first.  InsertDesc puts x behind every element whose
\* timestamp is not smaller, so elements with equal timestamps keep their order.
RECURSIVE InsertDesc(_, _)
InsertDesc(sorted, x) ==
    IF sorted = <<>> THEN <<x>>
    ELSE IF Head(sorted).timestamp >= x.timestamp
         THEN <<Head(sorted)>> \o InsertDesc(Tail(sorted), x)
         ELSE <<x>> \o sorted

RECURSIVE SortByTimestampDesc(_)
SortByTimestampDesc(list) ==
    IF list = <<>> THEN <<>>
    ELSE InsertDesc(SortByTimestampDesc(SubSeq(list, 1, Len(list) - 1)),
                    list[Len(list)])

getCommitHistory(stored) == SortByTimestampDesc(stored)

\* Mutant: the read returns the list as it is stored.
getFavoriteCommits_Unsorted(stored) == stored

getFavoriteCommits(stored) == SortByTimestampDesc(stored)

CommitMessageItem(message, t, provider, model) ==
    [message |-> message, timestamp |-> t, provider |-> provider, model |-> model]

\* Mutant: push instead of unshift, so that the cut removes the newest entry.
addToCommitHistory_Push(stored, message, t, provider, model) ==
    LET hist == getCommitHistory(stored)
    IN  IF \E i \in DOMAIN hist : hist[i].message = message
        THEN stored
        ELSE LET pushed == Append(hist, CommitMessageItem(message, t, provider, model))
             IN  IF Len(pushed) > MAX_HISTORY_ITEMS
                 THEN SubSeq(pushed, 1, MAX_HISTORY_ITEMS)
                 ELSE pushed

\* Mutant: no duplicate check.
addToCommitHistory_NoDedup(stored, message, t, provider, model) ==
    LET unshifted == <<CommitMessageItem(message, t, provider, model)>> \o getCommitHistory(stored)
    IN  IF Len(unshifted) > MAX_HISTORY_ITEMS
        THEN SubSeq(unshifted, 1, MAX_HISTORY_ITEMS)
        ELSE unshifted

\* Mutant: a message that is present is moved to the front.
addToCommitHistory_MoveToFront(stored, message, t, provider, model) ==
    LET hist == getCommitHistory(stored)
        others == SelectSeq(hist, LAMBDA item : item.message # message)
        unshifted == <<CommitMessageItem(message, t, provider, model)>> \o others
    IN  IF Len(unshifted) > MAX_HISTORY_ITEMS
        THEN SubSeq(unshifted, 1, MAX_HISTORY_ITEMS)
        ELSE unshifted

\* The value of globalState[COMMIT_HISTORY_KEY] after the call.  The early
\* return of the duplicate case performs no update, so the stored value stays.
addToCommitHistory(stored, message, t, provider, model) ==
    LET hist == getCommitHistory(stored)
    IN  IF \E i \in DOMAIN hist : hist[i].message = message
        THEN stored
        ELSE LET unshifted == <<CommitMessageItem(message, t, provider, model)>> \o hist
             IN  IF Len(unshifted) > MAX_HISTORY_ITEMS
                 THEN SubSeq(unshifted, 1, MAX_HISTORY_ITEMS)
                 ELSE unshifted

\* Mutant: no duplicate check.
addToFavorites_NoDedup(stored, message, t, provider, model) ==
    <<CommitMessageItem(message, t, provider, model)>> \o getFavoriteCommits(stored)

\* The value of globalState[COMMIT_FAVORITES_KEY] after the call.
addToFavorites(stored, message, t, provider, model) ==
    LET favs == getFavoriteCommits(stored)
    IN  IF \E i \in DOMAIN favs : favs[i].message = message
        THEN stored
        ELSE <<CommitMessageItem(message, t, provider, model)>> \o favs

\* The information message addToFavorites shows; it throws in neither case.
AlreadyInFavoritesText == "This message is already in your favorites!"

AddedToFavoritesText == "Commit message added to favorites!"

addToFavoritesReport(stored, message) ==
    LET favs == getFavoriteCommits(stored)
    IN  IF \E i \in DOMAIN favs : favs[i].message = message
        THEN AlreadyInFavoritesText
        ELSE AddedToFavoritesText

\* Mutant: the entries are compared by timestamp, not by message.
removeFromFavorites_ByTimestamp(stored, message) ==
    LET favs == getFavoriteCommits(stored)
        stamps == {favs[i].timestamp : i \in {j \in DOMAIN favs : favs[j].message = message}}
    IN  SelectSeq(favs, LAMBDA item : item.timestamp \notin stamps)

\* The value of globalState[COMMIT_FAVORITES_KEY] after the call.
removeFromFavorites(stored, message) ==
    SelectSeq(getFavoriteCommits(stored), LAMBDA item : item.message # message)

----------------------------------------------------------------------------
(* The response parser of generateCommitMessagesWithAI *)

\* The characters String.prototype.trim removes, among those of the model.
Whitespace == {" ", "\t", "\r", "\n"}

\* text.split('\n'): the pieces between line feeds; never an empty list.
RECURSIVE SplitLines(_)
SplitLines(text) ==
    IF \A i \in DOMAIN text : text[i] # "\n" THEN <<text>>
    ELSE LET k == CHOOSE i \in DOMAIN text :
                     text[i] = "\n" /\ \A j \in 1..(i - 1) : text[j] # "\n"
         IN  <<SubSeq(text, 1, k - 1)>> \o SplitLines(SubSeq(text, k + 1, Len(text)))

RECURSIVE TrimStart(_)
TrimStart(text) ==
    IF text # <<>> /\ Head(text) \in Whitespace THEN TrimStart(Tail(text)) ELSE text

RECURSIVE TrimEnd(_)
TrimEnd(text) ==
    IF text # <<>> /\ text[Len(text)] \in Whitespace
    THEN TrimEnd(SubSeq(text, 1, Len(text) - 1))
    ELSE text

Trim(text) == TrimEnd(TrimStart(text))

\* Mutant: the cut to three is applied before the empty lines are dropped.
ParseMessages_SliceFirst(text) ==
    LET lines == SplitLines(text)
        trimmed == [i \in DOMAIN lines |-> Trim(lines[i])]
        cut == SubSeq(trimmed, 1, Min(MAX_MESSAGES, Len(trimmed)))
    IN  SelectSeq(cut, LAMBDA msg : Len(msg) > 0)

\* response.split('\n').map(msg => msg.trim()).filter(msg => msg.length > 0).slice(0, 3)
ParseMessages(text) ==
    LET lines == SplitLines(text)
        trimmed == [i \in DOMAIN lines |-> Trim(lines[i])]
        kept == SelectSeq(trimmed, LAMBDA msg : Len(msg) > 0)
    IN  SubSeq(kept, 1, Min(MAX_MESSAGES, Len(kept)))

----------------------------------------------------------------------------
(* Texts of the program, character by character *)

\* '401'
UNAUTHORIZED_MARK ==
    <<"4", "0", "1">>

\* 'quota'
QUOTA_MARK ==
    <<"q", "u", "o", "t", "a">>

\* 'No response from AI provider'
NoResponseText ==
    <<"N", "o", " ", "r", "e", "s", "p", "o", "n", "s", "e", " ", "f", "r",
      "o", "m", " ", "A", "I", " ", "p", "r", "o", "v", "i", "d", "e", "r">>

\* 'No valid commit messages generated'
NoValidMessagesText ==
    <<"N", "o", " ", "v", "a", "l", "i", "d", " ", "c", "o", "m", "m", "i",
      "t", " ", "m", "e", "s", "s", "a", "g", "e", "s", " ", "g", "e", "n",
      "e", "r", "a", "t", "e", "d">>

\* 'Invalid API key. Please check your API key and try again.'
InvalidApiKeyText ==
    <<"I", "n", "v", "a", "l", "i", "d", " ", "A", "P", "I", " ", "k", "e",
      "y", ".", " ", "P", "l", "e", "a", "s", "e", " ", "c", "h", "e", "c",
      "k", " ", "y", "o", "u", "r", " ", "A", "P", "I", " ", "k", "e", "y",
      " ", "a", "n", "d", " ", "t", "r", "y", " ", "a", "g", "a", "i", "n",
      ".">>

\* 'API quota exceeded. Please check your usage limits.'
QuotaExceededText ==
    <<"A", "P", "I", " ", "q", "u", "o", "t", "a", " ", "e", "x", "c", "e",
      "e", "d", "e", "d", ".", " ", "P", "l", "e", "a", "s", "e", " ", "c",
      "h", "e", "c", "k", " ", "y", "o", "u", "r", " ", "u", "s", "a", "g",
      "e", " ", "l", "i", "m", "i", "t", "s", ".">>

\* 'AI API error: '
AiApiErrorPrefix ==
    <<"A", "I", " ", "A", "P", "I", " ", "e", "r", "r", "o", "r", ":", " ">>

\* 'Not a Git repository or Git is not installed'
NotARepositoryText ==
    <<"N", "o", "t", " ", "a", " ", "G", "i", "t", " ", "r", "e", "p", "o",
      "s", "i", "t", "o", "r", "y", " ", "o", "r", " ", "G", "i", "t", " ",
      "i", "s", " ", "n", "o", "t", " ", "i", "n", "s", "t", "a", "l", "l",
      "e", "d">>

\* 'Failed to get staged changes: '
StagedChangesFailedPrefix ==
    <<"F", "a", "i", "l", "e", "d", " ", "t", "o", " ", "g", "e", "t", " ",
      "s", "t", "a", "g", "e", "d", " ", "c", "h", "a", "n", "g", "e", "s",
      ":", " ">>

\* 'Error generating commit message: '
ReportPrefix ==
    <<"E", "r", "r", "o", "r", " ", "g", "e", "n", "e", "r", "a", "t", "i",
      "n", "g", " ", "c", "o", "m", "m", "i", "t", " ", "m", "e", "s", "s",
      "a", "g", "e", ":", " ">>

\* 'Failed to generate commit messages. Please try again.'
FailedToGenerateText ==
    <<"F", "a", "i", "l", "e", "d", " ", "t", "o", " ", "g", "e", "n", "e",
      "r", "a", "t", "e", " ", "c", "o", "m", "m", "i", "t", " ", "m", "e",
      "s", "s", "a", "g", "e", "s", ".", " ", "P", "l", "e", "a", "s", "e",
      " ", "t", "r", "y", " ", "a", "g", "a", "i", "n", ".">>

\* 'stdout maxBuffer length exceeded'
MaxBufferExceededText ==
    <<"s", "t", "d", "o", "u", "t", " ", "m", "a", "x", "B", "u", "f", "f", "e", "r", " ", "l", "e", "n", "g", "t", "h", " ", "e", "x", "c", "e", "e", "d", "e", "d">>

\* the message of a failed git command
CommandFailedText ==
    <<"C", "o", "m", "m", "a", "n", "d", " ", "f", "a", "i", "l", "e", "d",
      ":", " ", "g", "i", "t", " ", "d", "i", "f", "f", " ", "-", "-", "s",
      "t", "a", "g", "e", "d">>

----------------------------------------------------------------------------
(* getStagedChanges, the adapters and generateCommitMessagesWithAI *)

\* String.prototype.includes
Includes(text, part) ==
    \E i \in 1..(Len(text) - Len(part) + 1) : SubSeq(text, i, i + Len(part) - 1) = part

\* A text without a visible character (the empty text included).
IsBlank(text) == \A i \in DOMAIN text : text[i] \in Whitespace

\* What an adapter finds when the answer of its backend carries no text.
Null == <<"<null>">>

\* Mutant: every failure is reported as the generic one.
StagedChangesError_Generic(code) == StagedChangesFailedPrefix \o CommandFailedText

\* getStagedChanges, catch block: exit status 128 means 'not a repository'.
StagedChangesError(code) ==
    IF code = 128 THEN NotARepositoryText
    ELSE StagedChangesFailedPrefix \o CommandFailedText

\* Mutant: the staged text is compared with the empty text, not trimmed.
NothingStaged_NoTrim(stagedChanges) == stagedChanges = <<>>

\* !stagedChanges || stagedChanges.trim().length === 0
NothingStaged(stagedChanges) ==
    stagedChanges = <<>> \/ Len(Trim(stagedChanges)) = 0

\* What the adapter of a provider returns for the content of the answer:
\* callOpenAI and callGroq trim it and turn the empty text into null,
\* callOllama turns the empty text into null, callAnthropic and
\* callGoogleGemini return it as it is.
AdapterReturn(provider, content) ==
    CASE provider \in {"openai", "groq"} ->
             IF content = Null \/ Trim(content) = <<>> THEN Null ELSE Trim(content)
      [] provider = "ollama" ->
             IF content = Null \/ content = <<>> THEN Null ELSE content
      [] OTHER -> content

NoError == [kind |-> "", message |-> <<>>]

\* Mutant: 'quota' is looked for before '401'.
ClassifyError_QuotaFirst(text) ==
    IF Includes(text, QUOTA_MARK)
    THEN [kind |-> "QuotaExceeded", message |-> QuotaExceededText]
    ELSE IF Includes(text, UNAUTHORIZED_MARK)
         THEN [kind |-> "Unauthorized", message |-> InvalidApiKeyText]
         ELSE [kind |-> "ProviderError", message |-> AiApiErrorPrefix \o text]

\* The catch block of generateCommitMessagesWithAI.  kind names the throw
\* statement: line 1276, line 1279 or line 1281.
ClassifyError(text) ==
    IF Includes(text, UNAUTHORIZED_MARK)
    THEN [kind |-> "Unauthorized", message |-> InvalidApiKeyText]
    ELSE IF Includes(text, QUOTA_MARK)
         THEN [kind |-> "QuotaExceeded", message |-> QuotaExceededText]
         ELSE [kind |-> "ProviderError", message |-> AiApiErrorPrefix \o text]

Failure(text) == [failed |-> TRUE, error |-> ClassifyError(text), messages |-> <<>>]

\* generateCommitMessagesWithAI from the settlement of the adapter call on.
\* reply.failed: the call was rejected with the error text reply.content;
\* otherwise the backend answered with reply.content.
AfterAdapterCall(provider, reply) ==
    IF reply.failed THEN Failure(reply.content)
    ELSE LET text == AdapterReturn(provider, reply.content)
         IN  IF text = Null \/ text = <<>> THEN Failure(NoResponseText)
             ELSE IF Len(ParseMessages(text)) = 0 THEN Failure(NoValidMessagesText)
                  ELSE [failed |-> FALSE, error |-> NoError, messages |-> ParseMessages(text)]

----------------------------------------------------------------------------
(* What the environment may answer *)

\* Keys the user types into the input box of setApiKey (validation passed).
Keys == {"sk-key-1", "sk-key-2"}

\* Exit statuses of a failed 'git diff --staged'.
GitFailures == {128, 1}

\* execAsync with maxBuffer: output of more than maxBuffer bytes kills the
\* child and rejects the promise.
ExceedsMaxBuffer(bytes) == bytes > MAX_BUFFER

\* Sizes of staged diffs that are too long to be modelled as texts.
LongDiffSizes == {MAX_BUFFER + 1, 2 * MAX_BUFFER}

\* Outputs of 'git diff --staged': nothing, white space only, a diff.
StagedDiffs == {<<>>, <<" ", "\n">>, <<"d">>}

\* Error texts of a rejected adapter call.
BackendErrors ==
    {<<"H", "T", "T", "P", " ", "4", "0", "1">>,
     <<"o", "v", "e", "r", " ", "q", "u", "o", "t", "a">>,
     <<"t", "i", "m", "e", "o", "u", "t">>,
     <<"q", "u", "o", "t", "a", " ", "4", "0", "1">>}

\* Contents of an answer: the empty text, white space only, one line, and
\* four visible lines of which the first and the third are equal.
BackendTexts ==
    {<<>>,
     <<" ", "\n", " ">>,
     <<"a">>,
     <<"a", "\n", " ", "b", " ", "\n", "\n", "a", "\n", "c">>}

\* response.text() of the Gemini SDK always yields a text.
BackendContents(provider) ==
    IF provider = "google" THEN BackendTexts ELSE BackendTexts \cup {Null}

BackendReplies(provider) ==
    {[failed |-> TRUE, content |-> e] : e \in BackendErrors}
    \cup {[failed |-> FALSE, content |-> c] : c \in BackendContents(provider)}

----------------------------------------------------------------------------
(* analyzeChangeContext *)

UpperCase == <<"A", "B", "C", "D", "E", "F", "G", "H", "I", "J", "K", "L", "M",
               "N", "O", "P", "Q", "R", "S", "T", "U", "V", "W", "X", "Y", "Z">>

LowerCase == <<"a", "b", "c", "d", "e", "f", "g", "h", "i", "j", "k", "l", "m",
               "n", "o", "p", "q", "r", "s", "t", "u", "v", "w", "x", "y", "z">>

\* String.prototype.toLowerCase
ToLowerCase(text) ==
    [i \in DOMAIN text |->
        IF \E k \in DOMAIN UpperCase : UpperCase[k] = text[i]
        THEN LowerCase[CHOOSE k \in DOMAIN UpperCase : UpperCase[k] = text[i]]
        ELSE text[i]]

\* text.split(separator) for a separator of one character; never an empty list.
RECURSIVE Split(_, _)
Split(text, separator) ==
    IF \A i \in DOMAIN text : text[i] # separator THEN <<text>>
    ELSE LET k == CHOOSE i \in DOMAIN text :
                     text[i] = separator /\ \A j \in 1..(i - 1) : text[j] # separator
         IN  <<SubSeq(text, 1, k - 1)>> \o Split(SubSeq(text, k + 1, Len(text)), separator)

\* stdout.trim().split('\n').filter(file => file.length > 0)
ChangedFiles(stdout) ==
    SelectSeq(SplitLines(Trim(stdout)), LAMBDA file : Len(file) > 0)

\* file.split('.').pop()?.toLowerCase() || ''
Extension(file) ==
    LET parts == Split(file, ".") IN ToLowerCase(parts[Len(parts)])

\* file.split('/')[0]?.toLowerCase() || ''
Directory(file) == ToLowerCase(Split(file, "/")[1])

IncludesAny(text, parts) == \E part \in parts : Includes(text, part)

\* The context before the first file, and the one the catch block returns.
EmptyContext ==
    [fileTypes |-> <<>>, frameworks |-> <<>>, changeTypes |-> <<>>,
     hasTests |-> FALSE, hasConfig |-> FALSE, hasDocs |-> FALSE,
     language |-> "unknown", scope |-> ""]

\* The language table of lines 429-444; "" for an extension that is not in it.
LanguageOf(extension) ==
    CASE extension \in {<<"t", "s">>, <<"t", "s", "x">>, <<"j", "s">>, <<"j", "s", "x">>} -> "javascript/typescript"
      [] extension = <<"p", "y">> -> "python"
      [] extension = <<"j", "a", "v", "a">> -> "java"
      [] extension = <<"c", "s">> -> "csharp"
      [] extension = <<"g", "o">> -> "go"
      [] extension = <<"r", "s">> -> "rust"
      [] extension = <<"p", "h", "p">> -> "php"
      [] OTHER -> ""

\* The conditions of lines 447-483 on one file.
\* Mutant: only the lock file counts as a manifest of node.
IsNodeManifest_LockOnly(file) ==
    Includes(ToLowerCase(file), <<"p", "a", "c", "k", "a", "g", "e", "-", "l", "o", "c", "k", ".", "j", "s", "o", "n">>)

IsNodeManifest(file) ==
    IncludesAny(ToLowerCase(file), {<<"p", "a", "c", "k", "a", "g", "e", ".", "j", "s", "o", "n">>, <<"p", "a", "c", "k", "a", "g", "e", "-", "l", "o", "c", "k", ".", "j", "s", "o", "n">>})

IsPythonManifest(file) ==
    IncludesAny(ToLowerCase(file), {<<"r", "e", "q", "u", "i", "r", "e", "m", "e", "n", "t", "s", ".", "t", "x", "t">>, <<"p", "y", "p", "r", "o", "j", "e", "c", "t", ".", "t", "o", "m", "l">>})

IsRustManifest(file) ==
    IncludesAny(ToLowerCase(file), {<<"c", "a", "r", "g", "o", ".", "t", "o", "m", "l">>, <<"c", "a", "r", "g", "o", ".", "l", "o", "c", "k">>})

IsCorePath(file) == Directory(file) \in {<<"s", "r", "c">>, <<"l", "i", "b">>}

IsTestPath(file) ==
    \/ IncludesAny(ToLowerCase(file), {<<"t", "e", "s", "t">>, <<"s", "p", "e", "c">>})
    \/ Includes(Directory(file), <<"t", "e", "s", "t">>)

IsConfigPath(file) ==
    \/ IncludesAny(ToLowerCase(file), {<<"c", "o", "n", "f", "i", "g">>, <<".", "e", "n", "v">>})
    \/ Extension(file) \in {<<"j", "s", "o", "n">>, <<"y", "a", "m", "l">>, <<"y", "m", "l">>}

IsDocsPath(file) ==
    \/ IncludesAny(ToLowerCase(file), {<<"r", "e", "a", "d", "m", "e">>, <<"d", "o", "c">>})
    \/ Extension(file) = <<"m", "d">>

IsFrontendPath(file) ==
    \/ Includes(ToLowerCase(file), <<"c", "o", "m", "p", "o", "n", "e", "n", "t">>)
    \/ Extension(file) \in {<<"v", "u", "e">>, <<"t", "s", "x">>, <<"j", "s", "x">>}

IsBackendPath(file) ==
    IncludesAny(ToLowerCase(file), {<<"a", "p", "i">>, <<"c", "o", "n", "t", "r", "o", "l", "l", "e", "r">>, <<"s", "e", "r", "v", "i", "c", "e">>, <<"m", "o", "d", "e", "l">>})

\* array.push(tag) when the condition holds.
PushIf(condition, list, tag) == IF condition THEN Append(list, tag) ELSE list

\* context.scope = context.scope || hint, when the condition holds.
HintIf(condition, scope, hint) == IF condition /\ scope = "" THEN hint ELSE scope

\* Mutant: the test rule overwrites the scope.
AnalyzeFile_TestOverwrites(context, file) ==
    LET extension == Extension(file)
        scopeCore == IF IsCorePath(file) THEN "core" ELSE context.scope
        scopeTest == IF IsTestPath(file) THEN "test" ELSE scopeCore
        scopeConfig == HintIf(IsConfigPath(file), scopeTest, "config")
        scopeDocs == HintIf(IsDocsPath(file), scopeConfig, "docs")
        manifests == PushIf(IsRustManifest(file),
                        PushIf(IsPythonManifest(file),
                            PushIf(IsNodeManifest(file), context.frameworks, "node.js"),
                            "python"),
                        "rust")
    IN  [fileTypes |-> IF extension # <<>> /\ extension \notin Range(context.fileTypes)
                       THEN Append(context.fileTypes, extension)
                       ELSE context.fileTypes,
         frameworks |-> PushIf(IsBackendPath(file),
                            PushIf(IsFrontendPath(file), manifests, "frontend"),
                            "backend"),
         changeTypes |-> context.changeTypes,
         hasTests |-> context.hasTests \/ IsTestPath(file),
         hasConfig |-> \/ context.hasConfig
                       \/ IsNodeManifest(file) \/ IsPythonManifest(file) \/ IsRustManifest(file)
                       \/ IsConfigPath(file),
         hasDocs |-> context.hasDocs \/ IsDocsPath(file),
         language |-> IF LanguageOf(extension) # "" THEN LanguageOf(extension)
                      ELSE context.language,
         scope |-> scopeDocs]

\* One round of the loop of lines 419-484.
AnalyzeFile(context, file) ==
    LET extension == Extension(file)
        scopeCore == IF IsCorePath(file) THEN "core" ELSE context.scope
        scopeTest == HintIf(IsTestPath(file), scopeCore, "test")
        scopeConfig == HintIf(IsConfigPath(file), scopeTest, "config")
        scopeDocs == HintIf(IsDocsPath(file), scopeConfig, "docs")
        manifests == PushIf(IsRustManifest(file),
                        PushIf(IsPythonManifest(file),
                            PushIf(IsNodeManifest(file), context.frameworks, "node.js"),
                            "python"),
                        "rust")
    IN  [fileTypes |-> IF extension # <<>> /\ extension \notin Range(context.fileTypes)
                       THEN Append(context.fileTypes, extension)
                       ELSE context.fileTypes,
         frameworks |-> PushIf(IsBackendPath(file),
                            PushIf(IsFrontendPath(file), manifests, "frontend"),
                            "backend"),
         changeTypes |-> context.changeTypes,
         hasTests |-> context.hasTests \/ IsTestPath(file),
         hasConfig |-> \/ context.hasConfig
                       \/ IsNodeManifest(file) \/ IsPythonManifest(file) \/ IsRustManifest(file)
                       \/ IsConfigPath(file),
         hasDocs |-> context.hasDocs \/ IsDocsPath(file),
         language |-> IF LanguageOf(extension) # "" THEN LanguageOf(extension)
                      ELSE context.language,
         scope |-> scopeDocs]

\* The loop over the changed files.
RECURSIVE AnalyzeFiles(_, _)
AnalyzeFiles(context, files) ==
    IF files = <<>> THEN context
    ELSE AnalyzeFiles(AnalyzeFile(context, Head(files)), Tail(files))

\* Mutant: 'docs' is not pushed.
WithChangeTypes_NoDocs(context) ==
    [context EXCEPT !.changeTypes =
        PushIf("backend" \in Range(context.frameworks),
            PushIf("frontend" \in Range(context.frameworks),
                PushIf(context.hasConfig,
                    PushIf(context.hasTests, context.changeTypes, "test"),
                    "config"),
                "ui"),
            "api")]

\* Lines 486-501: the change types, from the flags and the frameworks.
WithChangeTypes(context) ==
    [context EXCEPT !.changeTypes =
        PushIf("backend" \in Range(context.frameworks),
            PushIf("frontend" \in Range(context.frameworks),
                PushIf(context.hasDocs,
                    PushIf(context.hasConfig,
                        PushIf(context.hasTests, context.changeTypes, "test"),
                        "config"),
                    "docs"),
                "ui"),
            "api")]

\* What 'git diff --staged --name-only' did: it failed, or it printed stdout.
ListingFailed == [failed |-> TRUE, stdout |-> <<>>]

\* analyzeChangeContext: the value it returns for the outcome of the listing.
analyzeChangeContext(listed) ==
    IF listed.failed THEN EmptyContext
    ELSE WithChangeTypes(AnalyzeFiles(EmptyContext, ChangedFiles(listed.stdout)))

\* What git prints for a list of paths: one line per path.
RECURSIVE NameOnly(_)
NameOnly(files) ==
    IF files = <<>> THEN <<>>
    ELSE Head(files) \o <<"\n">> \o NameOnly(Tail(files))

Listed(files) == [failed |-> FALSE, stdout |-> NameOnly(files)]

\* Paths of staged files.
StagedPaths ==
    {<<"s", "r", "c", "/", "a", ".", "t", "s">>,
     <<"t", "e", "s", "t", "s", "/", "b", ".", "s", "p", "e", "c", ".", "t", "s">>,
     <<"R", "E", "A", "D", "M", "E", ".", "m", "d">>,
     <<"p", "a", "c", "k", "a", "g", "e", ".", "j", "s", "o", "n">>,
     <<"w", "e", "b", "/", "p", "a", "c", "k", "a", "g", "e", ".", "j", "s", "o", "n">>,
     <<"l", "i", "b", "/", "x", ".", "p", "y">>,
     <<"A", "p", "p", ".", "t", "s", "x">>,
     <<"B", "t", "n", ".", "t", "s", "x">>,
     <<"a", "p", "i", "/", "m", "o", "d", "e", "l", ".", "g", "o">>,
     <<"M", "a", "k", "e", "f", "i", "l", "e">>}

\* The lists of up to n different paths, in any order (git orders them by
\* name unless diff.orderFile says otherwise).
RECURSIVE PathLists(_)
PathLists(n) ==
    IF n = 0 THEN {<<>>}
    ELSE LET shorter == PathLists(n - 1)
             longest == {files \in shorter : Len(files) = n - 1}
         IN  shorter \cup UNION {{Append(files, p) : p \in StagedPaths \ Range(files)} :
                                    files \in longest}

\* ["package.json", "src/index.ts"]
EndToEndPaths ==
    <<<<"p", "a", "c", "k", "a", "g", "e", ".", "j", "s", "o", "n">>,
      <<"s", "r", "c", "/", "i", "n", "d", "e", "x", ".", "t", "s">>>>

\* What the listing yields in a run of generateCommitMessage.
NameListings == {ListingFailed, Listed(EndToEndPaths)}

----------------------------------------------------------------------------
(* generateContextAwarePrompt *)

\* 'Generate a commit message for the following Git changes. '
BasePromptText ==
    <<"G", "e", "n", "e", "r", "a", "t", "e", " ", "a", " ", "c", "o", "m",
      "m", "i", "t", " ", "m", "e", "s", "s", "a", "g", "e", " ", "f", "o",
      "r", " ", "t", "h", "e", " ", "f", "o", "l", "l", "o", "w", "i", "n",
      "g", " ", "G", "i", "t", " ", "c", "h", "a", "n", "g", "e", "s", ".",
      " ">>

\* 'This appears to be a '
ChangeTypesIntro ==
    <<"T", "h", "i", "s", " ", "a", "p", "p", "e", "a", "r", "s", " ", "t",
      "o", " ", "b", "e", " ", "a", " ">>

\* ' change. '
ChangeTypesOutro ==
    <<" ", "c", "h", "a", "n", "g", "e", ".", " ">>

\* 'The changes are primarily in '
LanguageIntro ==
    <<"T", "h", "e", " ", "c", "h", "a", "n", "g", "e", "s", " ", "a", "r",
      "e", " ", "p", "r", "i", "m", "a", "r", "i", "l", "y", " ", "i", "n",
      " ">>

\* 'Frameworks involved: '
FrameworksIntro ==
    <<"F", "r", "a", "m", "e", "w", "o", "r", "k", "s", " ", "i", "n", "v",
      "o", "l", "v", "e", "d", ":", " ">>

\* 'Focus area: '
FocusAreaIntro ==
    <<"F", "o", "c", "u", "s", " ", "a", "r", "e", "a", ":", " ">>

\* '. '
ClauseEnd ==
    <<".", " ">>

\* ', '
CommaSpace ==
    <<",", " ">>

\* 'Generate a simple, concise commit message (no prefixes, just action and description). '
SimpleRuleText ==
    <<"G", "e", "n", "e", "r", "a", "t", "e", " ", "a", " ", "s", "i", "m",
      "p", "l", "e", ",", " ", "c", "o", "n", "c", "i", "s", "e", " ", "c",
      "o", "m", "m", "i", "t", " ", "m", "e", "s", "s", "a", "g", "e", " ",
      "(", "n", "o", " ", "p", "r", "e", "f", "i", "x", "e", "s", ",", " ",
      "j", "u", "s", "t", " ", "a", "c", "t", "i", "o", "n", " ", "a", "n",
      "d", " ", "d", "e", "s", "c", "r", "i", "p", "t", "i", "o", "n", ")",
      ".", " ">>

\* 'Use conventional commit format (type: description). '
StandardRuleText ==
    <<"U", "s", "e", " ", "c", "o", "n", "v", "e", "n", "t", "i", "o", "n",
      "a", "l", " ", "c", "o", "m", "m", "i", "t", " ", "f", "o", "r", "m",
      "a", "t", " ", "(", "t", "y", "p", "e", ":", " ", "d", "e", "s", "c",
      "r", "i", "p", "t", "i", "o", "n", ")", ".", " ">>

\* 'Use 'test:' for test changes. '
TestGuidanceText ==
    <<"U", "s", "e", " ", "'", "t", "e", "s", "t", ":", "'", " ", "f", "o",
      "r", " ", "t", "e", "s", "t", " ", "c", "h", "a", "n", "g", "e", "s",
      ".", " ">>

\* 'Use 'docs:' for documentation changes. '
DocsGuidanceText ==
    <<"U", "s", "e", " ", "'", "d", "o", "c", "s", ":", "'", " ", "f", "o",
      "r", " ", "d", "o", "c", "u", "m", "e", "n", "t", "a", "t", "i", "o",
      "n", " ", "c", "h", "a", "n", "g", "e", "s", ".", " ">>

\* 'Use 'chore:' for configuration changes. '
ChoreGuidanceText ==
    <<"U", "s", "e", " ", "'", "c", "h", "o", "r", "e", ":", "'", " ", "f",
      "o", "r", " ", "c", "o", "n", "f", "i", "g", "u", "r", "a", "t", "i",
      "o", "n", " ", "c", "h", "a", "n", "g", "e", "s", ".", " ">>

\* 'Use conventional commit format with scope (type(scope): description). '
ProfessionalRuleText ==
    <<"U", "s", "e", " ", "c", "o", "n", "v", "e", "n", "t", "i", "o", "n",
      "a", "l", " ", "c", "o", "m", "m", "i", "t", " ", "f", "o", "r", "m",
      "a", "t", " ", "w", "i", "t", "h", " ", "s", "c", "o", "p", "e", " ",
      "(", "t", "y", "p", "e", "(", "s", "c", "o", "p", "e", ")", ":", " ",
      "d", "e", "s", "c", "r", "i", "p", "t", "i", "o", "n", ")", ".", " ">>

\* 'Suggested scope: '
SuggestedScopeIntro ==
    <<"S", "u", "g", "g", "e", "s", "t", "e", "d", " ", "s", "c", "o", "p",
      "e", ":", " ">>

\* 'Use full conventional commit format with body and footer if needed. Include breaking change indicators if applicable. '
EnterpriseRuleText ==
    <<"U", "s", "e", " ", "f", "u", "l", "l", " ", "c", "o", "n", "v", "e",
      "n", "t", "i", "o", "n", "a", "l", " ", "c", "o", "m", "m", "i", "t",
      " ", "f", "o", "r", "m", "a", "t", " ", "w", "i", "t", "h", " ", "b",
      "o", "d", "y", " ", "a", "n", "d", " ", "f", "o", "o", "t", "e", "r",
      " ", "i", "f", " ", "n", "e", "e", "d", "e", "d", ".", " ", "I", "n",
      "c", "l", "u", "d", "e", " ", "b", "r", "e", "a", "k", "i", "n", "g",
      " ", "c", "h", "a", "n", "g", "e", " ", "i", "n", "d", "i", "c", "a",
      "t", "o", "r", "s", " ", "i", "f", " ", "a", "p", "p", "l", "i", "c",
      "a", "b", "l", "e", ".", " ">>

\* 'Here are the changes:\n\n'
ChangesIntro ==
    <<"H", "e", "r", "e", " ", "a", "r", "e", " ", "t", "h", "e", " ", "c",
      "h", "a", "n", "g", "e", "s", ":", "\\", "n", "\\", "n">>

\* '\n\nGenerate 3 different commit message options.'
ThreeOptionsText ==
    <<"\\", "n", "\\", "n", "G", "e", "n", "e", "r", "a", "t", "e", " ", "3",
      " ", "d", "i", "f", "f", "e", "r", "e", "n", "t", " ", "c", "o", "m",
      "m", "i", "t", " ", "m", "e", "s", "s", "a", "g", "e", " ", "o", "p",
      "t", "i", "o", "n", "s", ".">>

\* The characters of a tag, a language or a scope.
TextOf(atom) ==
    CASE atom = "test" -> <<"t", "e", "s", "t">>
      [] atom = "config" -> <<"c", "o", "n", "f", "i", "g">>
      [] atom = "docs" -> <<"d", "o", "c", "s">>
      [] atom = "ui" -> <<"u", "i">>
      [] atom = "api" -> <<"a", "p", "i">>
      [] atom = "node.js" -> <<"n", "o", "d", "e", ".", "j", "s">>
      [] atom = "python" -> <<"p", "y", "t", "h", "o", "n">>
      [] atom = "rust" -> <<"r", "u", "s", "t">>
      [] atom = "frontend" -> <<"f", "r", "o", "n", "t", "e", "n", "d">>
      [] atom = "backend" -> <<"b", "a", "c", "k", "e", "n", "d">>
      [] atom = "javascript/typescript" -> <<"j", "a", "v", "a", "s", "c", "r", "i", "p", "t", "/", "t", "y", "p",
  "e", "s", "c", "r", "i", "p", "t">>
      [] atom = "java" -> <<"j", "a", "v", "a">>
      [] atom = "csharp" -> <<"c", "s", "h", "a", "r", "p">>
      [] atom = "go" -> <<"g", "o">>
      [] atom = "php" -> <<"p", "h", "p">>
      [] atom = "core" -> <<"c", "o", "r", "e">>
      [] atom = "unknown" -> <<"u", "n", "k", "n", "o", "w", "n">>
      [] OTHER -> <<>>

\* Array.prototype.join(', ') of a list of tags.
RECURSIVE JoinTags(_)
JoinTags(tags) ==
    IF tags = <<>> THEN <<>>
    ELSE IF Len(tags) = 1 THEN TextOf(tags[1])
    ELSE TextOf(Head(tags)) \o CommaSpace \o JoinTags(Tail(tags))

\* prompt += text, when the condition holds.
AddIf(condition, soFar, text) == IF condition THEN soFar \o text ELSE soFar

Styles == {"simple", "standard", "professional", "enterprise"}

\* Lines 529-544: the clauses about the context.
ContextClauses(context) ==
    AddIf(context.scope # "",
        AddIf(Len(context.frameworks) > 0,
            AddIf(context.language # "unknown",
                AddIf(Len(context.changeTypes) > 0,
                    BasePromptText,
                    ChangeTypesIntro \o JoinTags(context.changeTypes) \o ChangeTypesOutro),
                LanguageIntro \o TextOf(context.language) \o ClauseEnd),
            FrameworksIntro \o JoinTags(context.frameworks) \o ClauseEnd),
        FocusAreaIntro \o TextOf(context.scope) \o ClauseEnd)

\* Mutant: the professional style names the scope also when there is none.
StyleClauses_AlwaysScope(context, professionalism) ==
    CASE professionalism = "simple" -> SimpleRuleText
      [] professionalism = "standard" ->
             AddIf(context.hasConfig,
                 AddIf(context.hasDocs,
                     AddIf(context.hasTests, StandardRuleText, TestGuidanceText),
                     DocsGuidanceText),
                 ChoreGuidanceText)
      [] professionalism = "professional" ->
             ProfessionalRuleText \o SuggestedScopeIntro \o TextOf(context.scope) \o ClauseEnd
      [] professionalism = "enterprise" -> EnterpriseRuleText
      [] OTHER -> <<>>

\* Lines 547-572: the switch on the style; a style that is none of the four
\* adds nothing.
StyleClauses(context, professionalism) ==
    CASE professionalism = "simple" -> SimpleRuleText
      [] professionalism = "standard" ->
             AddIf(context.hasConfig,
                 AddIf(context.hasDocs,
                     AddIf(context.hasTests, StandardRuleText, TestGuidanceText),
                     DocsGuidanceText),
                 ChoreGuidanceText)
      [] professionalism = "professional" ->
             AddIf(context.scope # "", ProfessionalRuleText,
                   SuggestedScopeIntro \o TextOf(context.scope) \o ClauseEnd)
      [] professionalism = "enterprise" -> EnterpriseRuleText
      [] OTHER -> <<>>

generateContextAwarePrompt(stagedChanges, context, professionalism) ==
    ContextClauses(context) \o StyleClauses(context, professionalism)
        \o ChangesIntro \o stagedChanges \o ThreeOptionsText

----------------------------------------------------------------------------
(* Configuration and secrets *)

Providers == {"openai", "anthropic", "google", "groq", "ollama"}

\* What context.secrets.get yields for a secret name nothing is stored under.
Undefined == "<undefined>"

\* getApiKeySecret(): the secret name is the prefix plus the provider that is
\* configured at the moment of the call; the model keeps the provider part.
getApiKeySecret == config.provider

\* selectAIProvider, defaultConfigs.
DefaultConfig(provider) ==
    CASE provider = "openai"    -> [model |-> "gpt-4o-mini", endpoint |-> ""]
      [] provider = "google"    -> [model |-> "gemini-1.5-flash", endpoint |-> ""]
      [] provider = "groq"      -> [model |-> "llama3.1:8b", endpoint |-> "https://api.groq.com/openai"]
      [] provider = "ollama"    -> [model |-> "llama3.1:8b", endpoint |-> "http://localhost:11434"]
      [] provider = "anthropic" -> [model |-> "claude-3-haiku-20240307", endpoint |-> ""]

\* selectModel: the models of the quick pick, by configured provider.
ModelsOffered(provider) ==
    CASE provider = "openai"    -> {"gpt-4o-mini", "gpt-4o", "gpt-4-turbo", "gpt-3.5-turbo"}
      [] provider = "anthropic" -> {"claude-3-5-sonnet-20241022", "claude-3-haiku-20240307"}
      [] provider = "google"    -> {"gemini-1.5-flash", "gemini-1.5-pro"}
      [] provider = "ollama"    -> {"llama3.1:8b", "llama3.1:70b", "codellama:7b"}
      [] provider = "groq"      -> {"llama-3.1-8b-instant", "mixtral-8x7b-32768"}

NotParsed == [done |-> FALSE, messages |-> <<>>]

NotAnalyzed == [done |-> FALSE, context |-> EmptyContext]

\* analyzeChangeContext has not been called.
AnalyzeIdle ==
    /\ listing = ListingFailed
    /\ analysis = NotAnalyzed

NoPrompt == [done |-> FALSE, text |-> <<>>]

\* generateContextAwarePrompt has not been called.
PromptIdle ==
    /\ promptInput = [stagedChanges |-> <<>>, context |-> EmptyContext,
                      professionalism |-> "standard"]
    /\ prompt = NoPrompt

GenIdle ==
    [pc |-> "idle", provider |-> "", apiKey |-> "", diff |-> <<>>, context |-> EmptyContext,
     callProvider |-> "", callModel |-> "", professionalism |-> "", messages |-> <<>>,
     offerHistory |-> FALSE, offerFavorites |-> FALSE, selected |-> <<>>,
     selProvider |-> "", selModel |-> "", list |-> <<>>,
     outcome |-> "", errorKind |-> "", error |-> <<>>]

RunZero ==
    [gitCalls |-> 0, analyzeCalls |-> 0, providerCalls |-> 0, warnings |-> 0,
     errorsReported |-> 0, historyUpdates |-> 0, favoritesUpdates |-> 0,
     secretAtCall |-> "", callFailed |-> FALSE, blankDiff |-> FALSE,
     blankResponse |-> FALSE, presented |-> FALSE, listingFailed |-> FALSE,
     gitExit |-> 0, produced |-> 0, rejection |-> <<>>, listing |-> ListingFailed,
     answer |-> <<>>]

SelIdle == [pc |-> "idle", current |-> "", chosen |-> ""]

KeyIdle == [pc |-> "idle", provider |-> ""]

\* The defaults of config.get in the code.
DefaultConfiguration ==
    [provider |-> "openai", model |-> "gpt-4o-mini", apiEndpoint |-> "",
     professionalism |-> "standard"]

NoneStarted == [generate |-> 0, select |-> 0, key |-> 0]

\* No command has run: the value of the flow variables in the specifications
\* of the store and of the parser.
FlowsIdle ==
    /\ config = DefaultConfiguration
    /\ secrets = [p \in Providers |-> Undefined]
    /\ gen = GenIdle
    /\ run = RunZero
    /\ sel = SelIdle
    /\ keyCmd = KeyIdle
    /\ started = NoneStarted

\* insertCommitMessage has not been called.
InsertIdle ==
    [pc |-> "idle", message |-> "", gitExtension |-> TRUE, exportsUsable |-> TRUE,
     repositories |-> <<>>, clipboard |-> "", shown |-> <<>>, warned |-> 0,
     failedWrites |-> 0, raised |-> FALSE]

\* No execution of addToCommitHistory is under way.
AddIdle == [pc |-> "idle", message |-> 0, history |-> <<>>, wrote |-> FALSE]

\* No registered command runs; the context key is not set.
CmdIdle ==
    [pc |-> "idle", apiKeyConfigured |-> FALSE, hasApiKey |-> FALSE, updatesLeft |-> 0,
     chosen |-> "", last |-> "", commands |-> 0]

AuxIdle ==
    /\ ins = InsertIdle
    /\ adds = [i \in 1..2 |-> AddIdle]
    /\ cmd = CmdIdle

----------------------------------------------------------------------------
(* Date.now(): between two calls the wall clock stands still, advances, or  *)
(* steps backwards (the system time was adjusted).                          *)

ClockReadings ==
    {now}
    \cup (IF ticks < MaxTicks THEN {now + 1} ELSE {})
    \cup (IF backSteps < MaxBackSteps /\ now > 0 THEN {now - 1} ELSE {})

ClockAfter(t) ==
    /\ now' = t
    /\ ticks' = IF t > now THEN ticks + 1 ELSE ticks
    /\ backSteps' = IF t < now THEN backSteps + 1 ELSE backSteps

----------------------------------------------------------------------------
(* The store operations, each one atomic.  A message is identified by a     *)
(* number: the code only compares messages for equality.                    *)

StoreProvider == "openai"
StoreModel == "gpt-4o-mini"

NoOp == [op |-> "none", present |-> FALSE, front |-> FALSE]

HistoryMessages == Range(Messages(history))

FavoriteMessages == Range(Messages(favorites))

\* A message never offered to addToCommitHistory since the last clear.
FreshMessage == Len(inserted) + 1

\* Nothing stored, the clock at its first reading.
EmptyStore ==
    /\ history = <<>>
    /\ favorites = <<>>
    /\ now = 1
    /\ ticks = 0
    /\ backSteps = 0
    /\ inserted = <<>>
    /\ lastOp = NoOp

StoreInit ==
    /\ EmptyStore
    /\ response = <<>>
    /\ parsed = NotParsed
    /\ AnalyzeIdle
    /\ PromptIdle
    /\ FlowsIdle
    /\ AuxIdle

\* addToCommitHistory with a message that is not in history.
AddNewToHistory(maxMessages) ==
    /\ FreshMessage <= maxMessages
    /\ \E t \in ClockReadings :
          /\ history' = addToCommitHistory(history, FreshMessage, t, StoreProvider, StoreModel)
          /\ inserted' = Append(inserted, [message |-> FreshMessage, timestamp |-> t])
          /\ ClockAfter(t)
    /\ lastOp' = [op |-> "addToCommitHistory", present |-> FALSE, front |-> FALSE]
    /\ UNCHANGED <<favorites, parseVars, analyzeVars, promptVars, flowVars, auxVars>>

\* addToCommitHistory with a message that is in history: Date.now() is not reached.
AddPresentToHistory ==
    /\ \E m \in HistoryMessages :
          /\ history' = addToCommitHistory(history, m, now, StoreProvider, StoreModel)
          /\ lastOp' = [op |-> "addToCommitHistory", present |-> TRUE,
                        front |-> history[1].message = m]
    /\ UNCHANGED <<favorites, clockVars, inserted, parseVars, analyzeVars, promptVars, flowVars, auxVars>>

\* manageFavorites, action 'clear-history', confirmed.
ClearHistory ==
    /\ history' = <<>>
    /\ inserted' = <<>>
    /\ lastOp' = [op |-> "clear-history", present |-> FALSE, front |-> FALSE]
    /\ UNCHANGED <<favorites, clockVars, parseVars, analyzeVars, promptVars, flowVars, auxVars>>

HistoryNext ==
    \/ AddNewToHistory(MaxFresh)
    \/ AddPresentToHistory
    \/ ClearHistory

SpecHistory == StoreInit /\ [][HistoryNext]_vars

----------------------------------------------------------------------------
(* SpecStore: both lists, a few messages each *)

\* addToFavorites: Date.now() is reached only when the message is new.
AddToFavorites ==
    /\ \E m \in 1..MaxFav :
          IF m \in FavoriteMessages
          THEN /\ favorites' = addToFavorites(favorites, m, now, StoreProvider, StoreModel)
               /\ lastOp' = [op |-> "addToFavorites", present |-> TRUE,
                             front |-> favorites[1].message = m,
                             report |-> addToFavoritesReport(favorites, m)]
               /\ UNCHANGED clockVars
          ELSE /\ \E t \in ClockReadings :
                     /\ favorites' = addToFavorites(favorites, m, t, StoreProvider, StoreModel)
                     /\ ClockAfter(t)
               /\ lastOp' = [op |-> "addToFavorites", present |-> FALSE, front |-> FALSE,
                             report |-> addToFavoritesReport(favorites, m)]
    /\ UNCHANGED <<history, inserted, parseVars, analyzeVars, promptVars, flowVars, auxVars>>

\* showFavoriteCommits, action 'remove', on the favorite that was selected;
\* the favorite may have been removed since the list was shown.
RemoveFromFavorites ==
    /\ \E m \in 1..MaxFav :
          /\ favorites' = removeFromFavorites(favorites, m)
          /\ lastOp' = [op |-> "removeFromFavorites", present |-> m \in FavoriteMessages,
                        front |-> favorites # <<>> /\ favorites[1].message = m]
    /\ UNCHANGED <<history, clockVars, inserted, parseVars, analyzeVars, promptVars, flowVars, auxVars>>

\* manageFavorites, action 'clear-favorites', confirmed.
ClearFavorites ==
    /\ favorites' = <<>>
    /\ lastOp' = [op |-> "clear-favorites", present |-> FALSE, front |-> FALSE]
    /\ UNCHANGED <<history, clockVars, inserted, parseVars, analyzeVars, promptVars, flowVars, auxVars>>

StoreNext ==
    \/ AddNewToHistory(MaxStoreHistory)
    \/ AddPresentToHistory
    \/ ClearHistory
    \/ AddToFavorites
    \/ RemoveFromFavorites
    \/ ClearFavorites

SpecStore == StoreInit /\ [][StoreNext]_vars

----------------------------------------------------------------------------
(* SpecFavorites: the favorites list grown beyond the length of the history *)

\* The smallest message that is not in favorites.
FreshFavorite ==
    CHOOSE m \in 1..(Len(favorites) + 1) :
        /\ m \notin FavoriteMessages
        /\ \A k \in 1..(m - 1) : k \in FavoriteMessages

\* addToFavorites with a message that is not in favorites.
AddFreshToFavorites ==
    /\ Len(favorites) < MaxFavorites
    /\ \E t \in ClockReadings :
          /\ favorites' = addToFavorites(favorites, FreshFavorite, t, StoreProvider, StoreModel)
          /\ ClockAfter(t)
    /\ lastOp' = [op |-> "addToFavorites", present |-> FALSE, front |-> FALSE,
                  report |-> addToFavoritesReport(favorites, FreshFavorite)]
    /\ UNCHANGED <<history, inserted, parseVars, analyzeVars, promptVars, flowVars, auxVars>>

FavoritesNext ==
    \/ AddFreshToFavorites
    \/ AddToFavorites
    \/ ClearFavorites

SpecFavorites == StoreInit /\ [][FavoritesNext]_vars

----------------------------------------------------------------------------
(* SpecParse: the parser applied to every short text and to the text of the *)
(* specification's example                                                  *)

Chars == {"a", "b", " ", "\n"}

RECURSIVE TextsUpTo(_)
TextsUpTo(n) ==
    IF n = 0 THEN {<<>>}
    ELSE LET shorter == TextsUpTo(n - 1)
         IN  shorter \cup {Append(t, c) : t \in {u \in shorter : Len(u) = n - 1}, c \in Chars}

\* "a\n\nb\n c \n d"
ExampleResponse == <<"a", "\n", "\n", "b", "\n", " ", "c", " ", "\n", " ", "d">>

ParseInit ==
    /\ response \in TextsUpTo(MaxLen) \cup {ExampleResponse}
    /\ parsed = NotParsed
    /\ AnalyzeIdle
    /\ PromptIdle
    /\ EmptyStore
    /\ FlowsIdle
    /\ AuxIdle

Parse ==
    /\ ~parsed.done
    /\ parsed' = [done |-> TRUE, messages |-> ParseMessages(response)]
    /\ UNCHANGED <<response, storeVars, clockVars, traceVars, flowVars, auxVars, analyzeVars, promptVars>>

ParseNext == Parse

SpecParse == ParseInit /\ [][ParseNext]_vars

----------------------------------------------------------------------------
(* SpecAnalyze: analyzeChangeContext applied to a failed listing and to    *)
(* every short list of staged paths                                        *)

AnalyzeInit ==
    /\ listing \in {ListingFailed} \cup {Listed(files) : files \in PathLists(MaxPaths)}
    /\ analysis = NotAnalyzed
    /\ PromptIdle
    /\ response = <<>>
    /\ parsed = NotParsed
    /\ EmptyStore
    /\ FlowsIdle
    /\ AuxIdle

Analyze ==
    /\ ~analysis.done
    /\ analysis' = [done |-> TRUE, context |-> analyzeChangeContext(listing)]
    /\ UNCHANGED <<listing, parseVars, promptVars, storeVars, clockVars, traceVars, flowVars, auxVars>>

AnalyzeNext == Analyze

SpecAnalyze == AnalyzeInit /\ [][AnalyzeNext]_vars

----------------------------------------------------------------------------
(* SpecPrompt: generateContextAwarePrompt applied to the contexts of short *)
(* lists of staged paths, in each of the four styles                       *)

\* The contexts analyzeChangeContext returns.
Contexts ==
    {analyzeChangeContext(listed) :
        listed \in {ListingFailed} \cup {Listed(files) : files \in PathLists(MaxPaths)}}

PromptInit ==
    /\ promptInput \in [stagedChanges : {<<"d">>}, context : Contexts,
                        professionalism : Styles]
    /\ prompt = NoPrompt
    /\ AnalyzeIdle
    /\ response = <<>>
    /\ parsed = NotParsed
    /\ EmptyStore
    /\ FlowsIdle
    /\ AuxIdle

Prompt ==
    /\ ~prompt.done
    /\ prompt' = [done |-> TRUE,
                  text |-> generateContextAwarePrompt(promptInput.stagedChanges,
                                                      promptInput.context,
                                                      promptInput.professionalism)]
    /\ UNCHANGED <<promptInput, analyzeVars, parseVars, storeVars, clockVars, traceVars,
                   flowVars, auxVars>>

PromptNext == Prompt

SpecPrompt == PromptInit /\ [][PromptNext]_vars

----------------------------------------------------------------------------
(* insertCommitMessage.  The environment is what the calls into VS Code     *)
(* return: the git extension (or none), whether its exports answer          *)
(* getRepositories(), the repositories with or without an input box, and    *)
(* whether a write to the clipboard succeeds.                               *)

InsertedText == "Commit message inserted into Source Control input box"

CopiedBoxMissingText ==
    "Commit message copied to clipboard (Source Control input box not available)"

CopiedText == "Commit message copied to clipboard"

CopyFailedText == "Failed to copy to clipboard: "

\* What the input box and the clipboard hold before the call.
DraftText == "draft"

OldClipboard == "old"

InsertMessages == {"feat: add a", "fix: b"}

\* A repository of the git API, with the value of its input box.
RepositoryStates ==
    {[inputBox |-> TRUE, value |-> DraftText], [inputBox |-> FALSE, value |-> ""]}

RECURSIVE RepositoryLists(_)
RepositoryLists(n) ==
    IF n = 0 THEN {<<>>}
    ELSE LET shorter == RepositoryLists(n - 1)
         IN  shorter \cup {Append(list, r) : list \in {l \in shorter : Len(l) = n - 1},
                                             r \in RepositoryStates}

InsertInit ==
    /\ \E g \in BOOLEAN, u \in BOOLEAN, list \in RepositoryLists(MaxRepositories) :
          ins = [InsertIdle EXCEPT !.gitExtension = g, !.exportsUsable = u,
                                   !.repositories = list, !.clipboard = OldClipboard]
    /\ adds = [i \in 1..2 |-> AddIdle]
    /\ cmd = CmdIdle
    /\ EmptyStore
    /\ response = <<>>
    /\ parsed = NotParsed
    /\ AnalyzeIdle
    /\ PromptIdle
    /\ FlowsIdle

otherThanIns ==
    <<adds, cmd, storeVars, clockVars, traceVars, parseVars, analyzeVars, promptVars, flowVars>>

\* A caller awaits insertCommitMessage(message).
InsertCall ==
    /\ ins.pc = "idle"
    /\ \E message \in InsertMessages : ins' = [ins EXCEPT !.pc = "try", !.message = message]
    /\ UNCHANGED otherThanIns

\* Mutant: the message is copied as well as inserted.
InsertTry_CopyToo ==
    /\ ins.pc = "try"
    /\ IF ~ins.gitExtension \/ ~ins.exportsUsable \/ Len(ins.repositories) = 0
       THEN ins' = [ins EXCEPT !.pc = "catch", !.warned = @ + 1]
       ELSE IF ins.repositories[1].inputBox
            THEN ins' = [ins EXCEPT !.pc = "done",
                                    !.repositories[1].value = ins.message,
                                    !.clipboard = ins.message,
                                    !.shown = Append(@, InsertedText)]
            ELSE ins' = [ins EXCEPT !.pc = "writing"]
    /\ UNCHANGED otherThanIns

\* The try block up to its end or to its await: a missing extension, exports
\* that do not answer and an empty repository list throw into the catch
\* block; the input box of the first repository takes the message; without an
\* input box the clipboard is written.
InsertTry ==
    /\ ins.pc = "try"
    /\ IF ~ins.gitExtension \/ ~ins.exportsUsable \/ Len(ins.repositories) = 0
       THEN ins' = [ins EXCEPT !.pc = "catch", !.warned = @ + 1]
       ELSE IF ins.repositories[1].inputBox
            THEN ins' = [ins EXCEPT !.pc = "done",
                                    !.repositories[1].value = ins.message,
                                    !.shown = Append(@, InsertedText)]
            ELSE ins' = [ins EXCEPT !.pc = "writing"]
    /\ UNCHANGED otherThanIns

\* The clipboard write of the try block settles; a rejection is thrown into
\* the catch block.
InsertWriteSettles ==
    /\ ins.pc = "writing"
    /\ \/ ins' = [ins EXCEPT !.pc = "done", !.clipboard = ins.message,
                             !.shown = Append(@, CopiedBoxMissingText)]
       \/ ins' = [ins EXCEPT !.pc = "catch", !.warned = @ + 1, !.failedWrites = @ + 1]
    /\ UNCHANGED otherThanIns

\* The catch block: the clipboard write of the fallback settles; its
\* rejection is shown as an error message and not thrown again.
InsertFallbackSettles ==
    /\ ins.pc = "catch"
    /\ \/ ins' = [ins EXCEPT !.pc = "done", !.clipboard = ins.message,
                             !.shown = Append(@, CopiedText)]
       \/ ins' = [ins EXCEPT !.pc = "done", !.failedWrites = @ + 1,
                             !.shown = Append(@, CopyFailedText)]
    /\ UNCHANGED otherThanIns

InsertNext ==
    \/ InsertCall
    \/ InsertTry
    \/ InsertWriteSettles
    \/ InsertFallbackSettles

SpecInsert == InsertInit /\ [][InsertNext]_vars

----------------------------------------------------------------------------
(* Two executions of addToCommitHistory.  Each reads the stored list when   *)
(* it is called (getCommitHistory runs up to its return before the await    *)
(* of line 174 yields) and runs from the duplicate test to the update of    *)
(* line 195 when it is resumed.                                             *)

\* Stored lists of n entries, messages 1..n, written at times n..1.
StoredHistory(n) ==
    [i \in 1..n |-> CommitMessageItem(i, n + 1 - i, StoreProvider, StoreModel)]

OverlapStores ==
    {StoredHistory(n) : n \in {0, 1, MAX_HISTORY_ITEMS - 1, MAX_HISTORY_ITEMS}}

\* Messages the two executions add: new ones and the one stored first.
OverlapMessages == {1} \cup {100 + k : k \in 1..MaxOverlapMessages}

OverlapInit ==
    /\ history \in OverlapStores
    /\ favorites = <<>>
    /\ now = MAX_HISTORY_ITEMS
    /\ ticks = 0
    /\ backSteps = 0
    /\ inserted = <<>>
    /\ lastOp = NoOp
    /\ adds = [i \in 1..2 |-> AddIdle]
    /\ ins = InsertIdle
    /\ cmd = CmdIdle
    /\ response = <<>>
    /\ parsed = NotParsed
    /\ AnalyzeIdle
    /\ PromptIdle
    /\ FlowsIdle

otherThanAdds ==
    <<ins, cmd, favorites, traceVars, parseVars, analyzeVars, promptVars, flowVars>>

\* addToCommitHistory is called: line 174 up to the await.
AddCall(i) ==
    /\ adds[i].pc = "idle"
    /\ \E message \in OverlapMessages :
          adds' = [adds EXCEPT ![i] = [pc |-> "awaiting", message |-> message,
                                       history |-> getCommitHistory(history),
                                       wrote |-> FALSE]]
    /\ UNCHANGED <<history, clockVars, otherThanAdds>>

\* The execution is resumed: lines 177-195 on the list it has read.
AddResume(i) ==
    /\ adds[i].pc = "awaiting"
    /\ LET local == adds[i].history
           present == \E k \in DOMAIN local : local[k].message = adds[i].message
       IN  IF present
           THEN /\ adds' = [adds EXCEPT ![i].pc = "done"]
                /\ UNCHANGED <<history, clockVars>>
           ELSE \E t \in ClockReadings :
                   /\ history' = addToCommitHistory(local, adds[i].message, t,
                                                    StoreProvider, StoreModel)
                   /\ ClockAfter(t)
                   /\ adds' = [adds EXCEPT ![i].pc = "done", ![i].wrote = TRUE]
    /\ UNCHANGED otherThanAdds

OverlapNext ==
    \E i \in 1..2 :
        \/ AddCall(i)
        \/ AddResume(i)

SpecOverlap == OverlapInit /\ [][OverlapNext]_vars

----------------------------------------------------------------------------
(* The registered commands setApiKey, clearApiKey, selectProvider and       *)
(* selectModel, run one after the other, with updateApiKeyContext where the *)
(* code calls it.                                                           *)

\* updateApiKeyContext, lines 146-154: what hasApiKey becomes.
HasApiKey(configuration, stored) ==
    \/ configuration.provider = "ollama"
    \/ stored[configuration.provider] # Undefined

\* The secrets an earlier session may have left: none, or a key for openai.
PersistedSecrets ==
    {[p \in Providers |-> Undefined],
     [p \in Providers |-> IF p = "openai" THEN "sk-key-1" ELSE Undefined]}

\* activate() has run updateApiKeyContext on what an earlier session left.
ContextInit ==
    /\ secrets \in PersistedSecrets
    /\ cmd = [CmdIdle EXCEPT !.apiKeyConfigured = HasApiKey(DefaultConfiguration, secrets)]
    /\ config = DefaultConfiguration
    /\ gen = GenIdle
    /\ run = RunZero
    /\ sel = SelIdle
    /\ keyCmd = KeyIdle
    /\ started = NoneStarted
    /\ ins = InsertIdle
    /\ adds = [i \in 1..2 |-> AddIdle]
    /\ EmptyStore
    /\ response = <<>>
    /\ parsed = NotParsed
    /\ AnalyzeIdle
    /\ PromptIdle

otherThanCmd ==
    <<gen, run, sel, keyCmd, started, ins, adds, storeVars, clockVars, traceVars, parseVars,
      analyzeVars, promptVars>>

\* A command is invoked.
Invoke(name, pc, updates) ==
    [cmd EXCEPT !.pc = pc, !.last = name, !.updatesLeft = updates, !.commands = @ + 1]

\* setApiKey up to its input box, or up to its return when the provider is
\* ollama; updates counts the calls of updateApiKeyContext that follow.
setApiKeyFrom(c, updates) ==
    [c EXCEPT !.pc = IF config.provider = "ollama" THEN "context" ELSE "input",
              !.updatesLeft = updates]

\* commitAi.setApiKey: setApiKey, then updateApiKeyContext.
CmdSetApiKey ==
    /\ cmd.pc = "idle"
    /\ cmd.commands < MaxCommands
    /\ cmd' = setApiKeyFrom(Invoke("setApiKey", "input", 1), 1)
    /\ UNCHANGED <<config, secrets, otherThanCmd>>

\* The input box is answered: nothing, or a key that is stored under the
\* secret name of the configured provider.
CmdInput ==
    /\ cmd.pc = "input"
    /\ \/ UNCHANGED secrets
       \/ \E apiKey \in Keys : secrets' = [secrets EXCEPT ![getApiKeySecret] = apiKey]
    /\ cmd' = [cmd EXCEPT !.pc = "context"]
    /\ UNCHANGED <<config, otherThanCmd>>

\* commitAi.clearApiKey: clearApiKey up to its quick pick.
CmdClearApiKey ==
    /\ cmd.pc = "idle"
    /\ cmd.commands < MaxCommands
    /\ cmd' = Invoke("clearApiKey", "manage", 1)
    /\ UNCHANGED <<config, secrets, otherThanCmd>>

\* Dismissed; 'Update API Key' (setApiKey, then the update of line 604 and
\* that of the command); 'Clear API Key' (the confirmation is shown).
CmdManage ==
    /\ cmd.pc = "manage"
    /\ \/ cmd' = [cmd EXCEPT !.pc = "context"]
       \/ cmd' = setApiKeyFrom(cmd, 2)
       \/ cmd' = [cmd EXCEPT !.pc = "confirm"]
    /\ UNCHANGED <<config, secrets, otherThanCmd>>

\* The confirmation is answered; 'Yes, Clear' deletes the secret of the
\* configured provider and is followed by the update of line 615.
CmdConfirm ==
    /\ cmd.pc = "confirm"
    /\ \/ /\ cmd' = [cmd EXCEPT !.pc = "context"]
          /\ UNCHANGED secrets
       \/ /\ secrets' = [secrets EXCEPT ![getApiKeySecret] = Undefined]
          /\ cmd' = [cmd EXCEPT !.pc = "context", !.updatesLeft = 2]
    /\ UNCHANGED <<config, otherThanCmd>>

\* updateApiKeyContext up to setContext: the provider and its secret are read.
CmdContextRead ==
    /\ cmd.pc = "context"
    /\ cmd' = [cmd EXCEPT !.pc = "setContext", !.hasApiKey = HasApiKey(config, secrets)]
    /\ UNCHANGED <<config, secrets, otherThanCmd>>

\* setContext settles; the command is over after its last update.
CmdContextSet ==
    /\ cmd.pc = "setContext"
    /\ cmd' = [cmd EXCEPT !.apiKeyConfigured = cmd.hasApiKey,
                          !.updatesLeft = @ - 1,
                          !.pc = IF cmd.updatesLeft > 1 THEN "context" ELSE "idle"]
    /\ UNCHANGED <<config, secrets, otherThanCmd>>

\* commitAi.selectProvider: selectAIProvider up to its quick pick.
CmdSelectProvider ==
    /\ cmd.pc = "idle"
    /\ cmd.commands < MaxCommands
    /\ cmd' = Invoke("selectProvider", "pickProvider", 0)
    /\ UNCHANGED <<config, secrets, otherThanCmd>>

\* Dismissed or the current provider: the command is over.  Another
\* provider: the three configuration updates of lines 823-836, which no
\* other command can observe one by one here.
CmdPickProvider ==
    /\ cmd.pc = "pickProvider"
    /\ \/ /\ cmd' = [cmd EXCEPT !.pc = "idle"]
          /\ UNCHANGED config
       \/ \E selectedProvider \in Providers \ {config.provider} :
             /\ config' = [config EXCEPT
                              !.provider = selectedProvider,
                              !.model = DefaultConfig(selectedProvider).model,
                              !.apiEndpoint = DefaultConfig(selectedProvider).endpoint]
             /\ cmd' = [cmd EXCEPT !.pc = "idle", !.chosen = selectedProvider]
    /\ UNCHANGED <<secrets, otherThanCmd>>

\* commitAi.selectModel: selectModel up to its quick pick.
CmdSelectModel ==
    /\ cmd.pc = "idle"
    /\ cmd.commands < MaxCommands
    /\ cmd' = Invoke("selectModel", "pickModel", 0)
    /\ UNCHANGED <<config, secrets, otherThanCmd>>

\* Dismissed or the current model: nothing; another model is configured.
CmdPickModel ==
    /\ cmd.pc = "pickModel"
    /\ \/ UNCHANGED config
       \/ \E selectedModel \in ModelsOffered(config.provider) \ {config.model} :
             config' = [config EXCEPT !.model = selectedModel]
    /\ cmd' = [cmd EXCEPT !.pc = "idle"]
    /\ UNCHANGED <<secrets, otherThanCmd>>

ContextNext ==
    \/ CmdSetApiKey
    \/ CmdInput
    \/ CmdClearApiKey
    \/ CmdManage
    \/ CmdConfirm
    \/ CmdContextRead
    \/ CmdContextSet
    \/ CmdSelectProvider
    \/ CmdPickProvider
    \/ CmdSelectModel
    \/ CmdPickModel

SpecContext == ContextInit /\ [][ContextNext]_vars

----------------------------------------------------------------------------
(* generateCommitMessage: one step per await *)

otherThanGen == <<sel, keyCmd, traceVars, parseVars, analyzeVars, promptVars, auxVars>>

Finish(g, outcome) == [g EXCEPT !.pc = "done", !.outcome = outcome]

\* Lines 968-984: the workspace folder check; then withProgress runs the
\* callback, which calls getStagedChanges.
BeginProgress(g, r) ==
    \E folderOpen \in BOOLEAN :
        IF folderOpen
        THEN /\ gen' = [g EXCEPT !.pc = "diff"]
             /\ run' = [r EXCEPT !.gitCalls = @ + 1]
        ELSE /\ gen' = Finish(g, "NoWorkspaceFolder")
             /\ run' = [r EXCEPT !.errorsReported = @ + 1]

\* The command starts: the provider is read; for ollama no key is looked up.
GenStart ==
    /\ gen.pc \in {"idle", "done"}
    /\ started.generate < MaxGenerate
    /\ started' = [started EXCEPT !.generate = @ + 1]
    /\ LET g == [GenIdle EXCEPT !.provider = config.provider]
       IN  IF config.provider # "ollama"
           THEN /\ gen' = [g EXCEPT !.pc = "getKey"]
                /\ run' = RunZero
           ELSE BeginProgress(g, RunZero)
    /\ UNCHANGED <<config, secrets, storeVars, clockVars, otherThanGen>>

\* context.secrets.get settles.
GenGetKey ==
    /\ gen.pc = "getKey"
    /\ LET storedApiKey == secrets[gen.provider]
       IN  IF storedApiKey = Undefined
           THEN /\ gen' = [gen EXCEPT !.pc = "warnNoKey"]
                /\ run' = [run EXCEPT !.warnings = @ + 1]
           ELSE BeginProgress([gen EXCEPT !.apiKey = storedApiKey], run)
    /\ UNCHANGED <<config, secrets, started, storeVars, clockVars, otherThanGen>>

\* The missing-key warning is answered: dismissed, or 'Set API Key', which
\* runs setApiKey up to its input box.
GenWarnNoKey ==
    /\ gen.pc = "warnNoKey"
    /\ \/ gen' = Finish(gen, "MissingKey")
       \/ gen' = IF config.provider = "ollama"
                 THEN Finish(gen, "MissingKey")
                 ELSE [gen EXCEPT !.pc = "setKeyInput"]
    /\ UNCHANGED <<config, secrets, run, started, storeVars, clockVars, otherThanGen>>

\* The input box of that setApiKey is answered.
GenSetKeyInput ==
    /\ gen.pc = "setKeyInput"
    /\ \/ UNCHANGED secrets
       \/ \E apiKey \in Keys : secrets' = [secrets EXCEPT ![getApiKeySecret] = apiKey]
    /\ gen' = Finish(gen, "MissingKey")
    /\ UNCHANGED <<config, run, started, storeVars, clockVars, otherThanGen>>

\* getStagedChanges settles: a failure is reported by the outer catch, an
\* empty text ends the run with the warning, anything else is analysed.
GenDiff ==
    /\ gen.pc = "diff"
    /\ \/ \E code \in GitFailures :
             /\ gen' = [Finish(gen, "Error") EXCEPT
                           !.error = ReportPrefix \o StagedChangesError(code)]
             /\ run' = [run EXCEPT !.errorsReported = @ + 1, !.gitExit = code]
       \/ \E bytes \in LongDiffSizes :
             /\ ExceedsMaxBuffer(bytes)
             /\ gen' = [Finish(gen, "Error") EXCEPT
                           !.error = ReportPrefix \o StagedChangesFailedPrefix
                                                 \o MaxBufferExceededText]
             /\ run' = [run EXCEPT !.errorsReported = @ + 1, !.produced = bytes]
       \/ \E stdout \in StagedDiffs :
             /\ ~ExceedsMaxBuffer(Len(stdout))
             /\ IF NothingStaged(stdout)
                THEN /\ gen' = [Finish(gen, "NoStagedChanges") EXCEPT !.diff = stdout]
                     /\ run' = [run EXCEPT !.warnings = @ + 1,
                                           !.blankDiff = IsBlank(stdout),
                                           !.produced = Len(stdout)]
                ELSE /\ gen' = [gen EXCEPT !.pc = "analyze", !.diff = stdout]
                     /\ run' = [run EXCEPT !.gitCalls = @ + 1, !.analyzeCalls = @ + 1,
                                           !.blankDiff = IsBlank(stdout),
                                           !.produced = Len(stdout)]
    /\ UNCHANGED <<config, secrets, started, storeVars, clockVars, otherThanGen>>

\* Mutant: a failed listing ends the run with an error.
GenAnalyze_ListingFailureEnds ==
    /\ gen.pc = "analyze"
    /\ \E listed \in NameListings :
          IF listed.failed
          THEN /\ gen' = Finish(gen, "Error")
               /\ run' = [run EXCEPT !.listingFailed = TRUE, !.errorsReported = @ + 1]
          ELSE /\ gen' = [gen EXCEPT !.pc = "call",
                                     !.context = analyzeChangeContext(listed),
                                     !.callProvider = config.provider,
                                     !.callModel = config.model,
                                     !.professionalism = config.professionalism]
               /\ run' = [run EXCEPT !.providerCalls = @ + 1,
                                     !.secretAtCall = secrets[config.provider],
                                     !.listing = listed]
    /\ UNCHANGED <<config, secrets, started, storeVars, clockVars, otherThanGen>>

\* analyzeChangeContext settles (a failed listing yields the empty context);
\* generateCommitMessagesWithAI reads the configuration and calls the adapter.
GenAnalyze ==
    /\ gen.pc = "analyze"
    /\ \E listed \in NameListings :
          /\ gen' = [gen EXCEPT !.pc = "call",
                                !.context = analyzeChangeContext(listed),
                                !.callProvider = config.provider,
                                !.callModel = config.model,
                                !.professionalism = config.professionalism]
          /\ run' = [run EXCEPT !.providerCalls = @ + 1,
                                !.secretAtCall = secrets[config.provider],
                                !.listingFailed = listed.failed,
                                !.listing = listed]
    /\ UNCHANGED <<config, secrets, started, storeVars, clockVars, otherThanGen>>

\* generateCommitMessage from the settlement of the adapter call on: the
\* answer is parsed; a failure is classified and reported by the outer catch;
\* otherwise the stored lists are read and the candidates are presented.
GenSettle(reply) ==
    LET result == AfterAdapterCall(gen.callProvider, reply)
        blank == ~reply.failed /\ reply.content # Null /\ IsBlank(reply.content)
        settled == [run EXCEPT !.callFailed = reply.failed, !.blankResponse = blank,
                               !.rejection = IF reply.failed THEN reply.content ELSE <<>>,
                               !.answer = IF reply.failed THEN <<>> ELSE reply.content]
    IN  IF result.failed
        THEN /\ gen' = [Finish(gen, "Error") EXCEPT
                           !.errorKind = result.error.kind,
                           !.error = ReportPrefix \o result.error.message]
             /\ run' = [settled EXCEPT !.errorsReported = @ + 1]
        ELSE IF Len(result.messages) = 0
             THEN /\ gen' = [Finish(gen, "Error") EXCEPT !.error = FailedToGenerateText]
                  /\ run' = [settled EXCEPT !.errorsReported = @ + 1]
             ELSE /\ gen' = [gen EXCEPT !.pc = "pick",
                                !.messages = result.messages,
                                !.offerHistory = Len(getCommitHistory(history)) > 0,
                                !.offerFavorites = Len(getFavoriteCommits(favorites)) > 0]
                  /\ run' = [settled EXCEPT !.presented = TRUE]

\* Mutant: a rejected call is repeated once.
GenResponse_Retry ==
    /\ gen.pc = "call"
    /\ \E reply \in BackendReplies(gen.callProvider) :
          IF reply.failed /\ run.providerCalls < 2
          THEN /\ gen' = gen
               /\ run' = [run EXCEPT !.providerCalls = @ + 1]
          ELSE GenSettle(reply)
    /\ UNCHANGED <<config, secrets, started, storeVars, clockVars, otherThanGen>>

\* The adapter call settles.
GenResponse ==
    /\ gen.pc = "call"
    /\ \E reply \in BackendReplies(gen.callProvider) : GenSettle(reply)
    /\ UNCHANGED <<config, secrets, started, storeVars, clockVars, otherThanGen>>

\* The quick pick of the candidates is answered.
GenPick ==
    /\ gen.pc = "pick"
    /\ \/ /\ gen' = Finish(gen, "Dismissed")
          /\ UNCHANGED <<run, storeVars, clockVars>>
       \/ /\ gen.offerHistory
          /\ LET shown == getCommitHistory(history)
             IN  gen' = IF Len(shown) = 0 THEN Finish(gen, "NothingToShow")
                        ELSE [gen EXCEPT !.pc = "historyPick", !.list = shown]
          /\ UNCHANGED <<run, storeVars, clockVars>>
       \/ /\ gen.offerFavorites
          /\ LET shown == getFavoriteCommits(favorites)
             IN  gen' = IF Len(shown) = 0 THEN Finish(gen, "NothingToShow")
                        ELSE [gen EXCEPT !.pc = "favoritesPick", !.list = shown]
          /\ UNCHANGED <<run, storeVars, clockVars>>
       \/ \E k \in DOMAIN gen.messages, t \in ClockReadings :
             LET message == gen.messages[k]
                 present == message \in HistoryMessages
             IN  /\ history' = addToCommitHistory(history, message, t,
                                                  config.provider, config.model)
                 /\ IF present THEN UNCHANGED clockVars ELSE ClockAfter(t)
                 /\ gen' = [gen EXCEPT !.pc = "action", !.selected = message,
                                       !.selProvider = config.provider,
                                       !.selModel = config.model]
                 /\ run' = [run EXCEPT
                               !.historyUpdates = IF present THEN @ ELSE @ + 1]
                 /\ UNCHANGED favorites
    /\ UNCHANGED <<config, secrets, started, otherThanGen>>

\* The quick pick of the actions on the chosen candidate is answered.
GenAction ==
    /\ gen.pc = "action"
    /\ \/ /\ \E outcome \in {"Dismissed", "Used", "Copied"} : gen' = Finish(gen, outcome)
          /\ UNCHANGED <<run, storeVars, clockVars>>
       \/ \E t \in ClockReadings :
             LET present == gen.selected \in FavoriteMessages
             IN  /\ favorites' = addToFavorites(favorites, gen.selected, t,
                                                gen.selProvider, gen.selModel)
                 /\ IF present THEN UNCHANGED clockVars ELSE ClockAfter(t)
                 /\ gen' = Finish(gen, "Used")
                 /\ run' = [run EXCEPT
                               !.favoritesUpdates = IF present THEN @ ELSE @ + 1]
                 /\ UNCHANGED history
    /\ UNCHANGED <<config, secrets, started, otherThanGen>>

\* showCommitHistory / showFavoriteCommits: the quick pick of the entries.
GenListPick ==
    /\ gen.pc \in {"historyPick", "favoritesPick"}
    /\ \/ gen' = Finish(gen, "Dismissed")
       \/ \E i \in DOMAIN gen.list :
             gen' = [gen EXCEPT
                        !.pc = IF gen.pc = "historyPick" THEN "historyAction"
                               ELSE "favoritesAction",
                        !.list = <<gen.list[i]>>]
    /\ UNCHANGED <<config, secrets, run, started, storeVars, clockVars, otherThanGen>>

\* showCommitHistory: use, copy, dismiss, or add the entry to the favorites.
GenHistoryAction ==
    /\ gen.pc = "historyAction"
    /\ \/ /\ \E outcome \in {"Dismissed", "Used", "Copied"} : gen' = Finish(gen, outcome)
          /\ UNCHANGED <<run, storeVars, clockVars>>
       \/ \E t \in ClockReadings :
             LET item == gen.list[1]
                 present == item.message \in FavoriteMessages
             IN  /\ favorites' = addToFavorites(favorites, item.message, t,
                                                item.provider, item.model)
                 /\ IF present THEN UNCHANGED clockVars ELSE ClockAfter(t)
                 /\ gen' = Finish(gen, "Favorited")
                 /\ run' = [run EXCEPT
                               !.favoritesUpdates = IF present THEN @ ELSE @ + 1]
                 /\ UNCHANGED history
    /\ UNCHANGED <<config, secrets, started, otherThanGen>>

\* showFavoriteCommits: use, copy, dismiss, or remove the entry.
GenFavoritesAction ==
    /\ gen.pc = "favoritesAction"
    /\ \/ /\ \E outcome \in {"Dismissed", "Used", "Copied"} : gen' = Finish(gen, outcome)
          /\ UNCHANGED <<run, storeVars>>
       \/ /\ favorites' = removeFromFavorites(favorites, gen.list[1].message)
          /\ gen' = Finish(gen, "Removed")
          /\ run' = [run EXCEPT !.favoritesUpdates = @ + 1]
          /\ UNCHANGED history
    /\ UNCHANGED <<config, secrets, started, clockVars, otherThanGen>>

----------------------------------------------------------------------------
(* selectAIProvider: the quick pick, then three configuration updates *)

otherThanSel == <<secrets, gen, run, keyCmd, storeVars, clockVars, traceVars, parseVars, analyzeVars, promptVars, auxVars>>

SelStart ==
    /\ sel.pc = "idle"
    /\ started.select < MaxSelect
    /\ started' = [started EXCEPT !.select = @ + 1]
    /\ sel' = [pc |-> "pick", current |-> config.provider, chosen |-> ""]
    /\ UNCHANGED <<config, otherThanSel>>

\* Dismissed or the current provider chosen: nothing happens.  Another
\* provider: config.update('provider', ...) is called.
SelPick ==
    /\ sel.pc = "pick"
    /\ \/ sel' = SelIdle
       \/ \E selectedProvider \in Providers \ {sel.current} :
             sel' = [sel EXCEPT !.pc = "updateProvider", !.chosen = selectedProvider]
    /\ UNCHANGED <<config, started, otherThanSel>>

\* Mutant: the switch deletes the key of the provider that was configured.
SelUpdateProvider_DropKey ==
    /\ sel.pc = "updateProvider"
    /\ config' = [config EXCEPT !.provider = sel.chosen]
    /\ secrets' = [secrets EXCEPT ![sel.current] = Undefined]
    /\ sel' = [sel EXCEPT !.pc = "updateModel"]
    /\ UNCHANGED <<started, gen, run, keyCmd, storeVars, clockVars, traceVars, parseVars, analyzeVars, promptVars, auxVars>>

\* config.update('provider', ...) settles.
SelUpdateProvider ==
    /\ sel.pc = "updateProvider"
    /\ config' = [config EXCEPT !.provider = sel.chosen]
    /\ sel' = [sel EXCEPT !.pc = "updateModel"]
    /\ UNCHANGED <<started, otherThanSel>>

SelUpdateModel ==
    /\ sel.pc = "updateModel"
    /\ config' = [config EXCEPT !.model = DefaultConfig(sel.chosen).model]
    /\ sel' = [sel EXCEPT !.pc = "updateEndpoint"]
    /\ UNCHANGED <<started, otherThanSel>>

SelUpdateEndpoint ==
    /\ sel.pc = "updateEndpoint"
    /\ config' = [config EXCEPT !.apiEndpoint = DefaultConfig(sel.chosen).endpoint]
    /\ sel' = SelIdle
    /\ UNCHANGED <<started, otherThanSel>>

----------------------------------------------------------------------------
(* The commands commitAi.setApiKey and commitAi.clearApiKey *)

otherThanKey == <<config, gen, run, sel, storeVars, clockVars, traceVars, parseVars, analyzeVars, promptVars, auxVars>>

\* setApiKey up to its input box; for ollama it returns at once.
KeySetStart ==
    /\ keyCmd.pc = "idle"
    /\ started.key < MaxKeyCommands
    /\ started' = [started EXCEPT !.key = @ + 1]
    /\ keyCmd' = IF config.provider = "ollama" THEN KeyIdle
                 ELSE [pc |-> "input", provider |-> config.provider]
    /\ UNCHANGED <<secrets, otherThanKey>>

\* The input box is answered; the key is stored under the secret name of the
\* provider that is configured now.
KeyInput ==
    /\ keyCmd.pc = "input"
    /\ \/ UNCHANGED secrets
       \/ \E apiKey \in Keys : secrets' = [secrets EXCEPT ![getApiKeySecret] = apiKey]
    /\ keyCmd' = KeyIdle
    /\ UNCHANGED <<started, otherThanKey>>

\* clearApiKey up to its quick pick.
KeyManageStart ==
    /\ keyCmd.pc = "idle"
    /\ started.key < MaxKeyCommands
    /\ started' = [started EXCEPT !.key = @ + 1]
    /\ keyCmd' = [pc |-> "manage", provider |-> config.provider]
    /\ UNCHANGED <<secrets, otherThanKey>>

\* Dismissed, 'Update API Key' (setApiKey up to its input box), or
\* 'Clear API Key' (the confirmation is shown).
KeyManage ==
    /\ keyCmd.pc = "manage"
    /\ \/ keyCmd' = KeyIdle
       \/ keyCmd' = IF config.provider = "ollama" THEN KeyIdle
                    ELSE [pc |-> "input", provider |-> config.provider]
       \/ keyCmd' = [keyCmd EXCEPT !.pc = "confirm"]
    /\ UNCHANGED <<secrets, started, otherThanKey>>

\* The confirmation is answered; the secret of the provider that is
\* configured now is deleted.
KeyConfirm ==
    /\ keyCmd.pc = "confirm"
    /\ \/ UNCHANGED secrets
       \/ secrets' = [secrets EXCEPT ![getApiKeySecret] = Undefined]
    /\ keyCmd' = KeyIdle
    /\ UNCHANGED <<started, otherThanKey>>

----------------------------------------------------------------------------
(* Spec: the commands, interleaved at their awaits *)

\* What an earlier session may have left in globalState and in the secrets:
\* nothing (a fresh installation), or a message in the history, another one in
\* the favorites and a key for openai.
Persisted ==
    {[history |-> <<>>, favorites |-> <<>>, secrets |-> [p \in Providers |-> Undefined]],
     [history |-> <<CommitMessageItem(<<"a">>, 0, "openai", "gpt-4o-mini")>>,
      favorites |-> <<CommitMessageItem(<<"b">>, 0, "openai", "gpt-4o-mini")>>,
      secrets |-> [p \in Providers |-> IF p = "openai" THEN "sk-key-1" ELSE Undefined]]}

\* The state after activate(): the configuration at its defaults, the store
\* and the secrets as an earlier session left them, no command running.
Init ==
    /\ \E persisted \in Persisted :
          /\ history = persisted.history
          /\ favorites = persisted.favorites
          /\ secrets = persisted.secrets
    /\ now = 1
    /\ ticks = 0
    /\ backSteps = 0
    /\ inserted = <<>>
    /\ lastOp = NoOp
    /\ response = <<>>
    /\ parsed = NotParsed
    /\ AnalyzeIdle
    /\ PromptIdle
    /\ AuxIdle
    /\ config = DefaultConfiguration
    /\ gen = GenIdle
    /\ run = RunZero
    /\ sel = SelIdle
    /\ keyCmd = KeyIdle
    /\ started = NoneStarted

Next ==
    \/ GenStart
    \/ GenGetKey
    \/ GenWarnNoKey
    \/ GenSetKeyInput
    \/ GenDiff
    \/ GenAnalyze
    \/ GenResponse
    \/ GenPick
    \/ GenAction
    \/ GenListPick
    \/ GenHistoryAction
    \/ GenFavoritesAction
    \/ SelStart
    \/ SelPick
    \/ SelUpdateProvider
    \/ SelUpdateModel
    \/ SelUpdateEndpoint
    \/ KeySetStart
    \/ KeyInput
    \/ KeyManageStart
    \/ KeyManage
    \/ KeyConfirm

Spec == Init /\ [][Next]_vars

----------------------------------------------------------------------------
(* Properties of the history store *)

NonDecreasing(entries) ==
    \A i, j \in DOMAIN entries : i < j => entries[i].timestamp <= entries[j].timestamp

IsSortedDesc(list) ==
    \A i, j \in DOMAIN list : i < j => list[i].timestamp >= list[j].timestamp

NoDuplicateMessages(list) ==
    \A i, j \in DOMAIN list : i # j => list[i].message # list[j].message

LastAppendedFirst ==
    Messages(history) = Reverse(LastN(Messages(inserted), MAX_HISTORY_ITEMS))

\* C7 as stated: after any sequence of appends of distinct messages the stored
\* history is the last 20 appended, most recent first, whatever the clock does.
C7_LastTwentyWhateverTheClock == LastAppendedFirst

\* C7 amended: an append of a new message puts it at the front and leaves at
\* most 20 entries; as long as the timestamps of the appended entries never
\* decrease (equal timestamps included) the stored history is the last 20
\* appended, most recent first, so the entry evicted is the earliest inserted.
C7_LastTwentyUnderMonotoneClock ==
    /\ (lastOp.op = "addToCommitHistory" /\ ~lastOp.present) =>
          /\ history # <<>>
          /\ history[1].message = inserted[Len(inserted)].message
          /\ Len(history) = Min(Len(inserted), MAX_HISTORY_ITEMS)
    /\ NonDecreasing(inserted) => LastAppendedFirst

\* 21 or more appends with equal and with increasing timestamps: the cap has cut.
C7_Witness ==
    /\ lastOp.op = "addToCommitHistory" /\ ~lastOp.present
    /\ Len(inserted) > MAX_HISTORY_ITEMS
    /\ NonDecreasing(inserted)
    /\ inserted[1].timestamp < inserted[Len(inserted)].timestamp
    /\ inserted[1].timestamp = inserted[2].timestamp
    /\ Len(history) = MAX_HISTORY_ITEMS

\* C8: the stored history never has more than MAX_HISTORY_ITEMS entries and
\* never holds two entries with the same message.
C8_HistoryCappedAndDistinct ==
    /\ Len(history) <= MAX_HISTORY_ITEMS
    /\ NoDuplicateMessages(history)

\* The cap has cut, and a message that is stored was offered again.
C8_Witness ==
    /\ Len(inserted) > MAX_HISTORY_ITEMS
    /\ Len(history) = MAX_HISTORY_ITEMS
    /\ lastOp.op = "addToCommitHistory" /\ lastOp.present

----------------------------------------------------------------------------
(* Properties of the reads *)

Count(list, item) == Cardinality({i \in DOMAIN list : list[i] = item})

SameEntries(a, b) ==
    /\ Len(a) = Len(b)
    /\ \A item \in Range(a) \cup Range(b) : Count(a, item) = Count(b, item)

\* C10: getCommitHistory and getFavoriteCommits return the stored entries by
\* descending timestamp whatever the stored order, none added and none dropped.
C10_ReadsSortedAndComplete ==
    /\ IsSortedDesc(getCommitHistory(history))
    /\ SameEntries(getCommitHistory(history), history)
    /\ IsSortedDesc(getFavoriteCommits(favorites))
    /\ SameEntries(getFavoriteCommits(favorites), favorites)

\* Both lists are stored in an order that is not the sorted one.
C10_Witness ==
    /\ ~IsSortedDesc(history)
    /\ ~IsSortedDesc(favorites)
    /\ getCommitHistory(history) # history
    /\ getFavoriteCommits(favorites) # favorites

----------------------------------------------------------------------------
(* Properties of the parser, stated on the positions of the raw text *)

\* The positions around the lines of a text: 0, every line feed, Len + 1.
LineBreaks(text) == {0, Len(text) + 1} \cup {i \in DOMAIN text : text[i] = "\n"}

\* The lines, as pairs of consecutive breaks, that hold a visible character.
VisibleLines(text) ==
    {l \in LineBreaks(text) \X LineBreaks(text) :
        /\ l[1] < l[2]
        /\ \A b \in LineBreaks(text) : ~(l[1] < b /\ b < l[2])
        /\ \E i \in (l[1] + 1)..(l[2] - 1) : text[i] \notin Whitespace}

\* The k-th visible line, from its first to its last visible character.
VisibleLine(text, k) ==
    LET l == CHOOSE v \in VisibleLines(text) :
                 Cardinality({u \in VisibleLines(text) : u[1] < v[1]}) = k - 1
        visible == {i \in (l[1] + 1)..(l[2] - 1) : text[i] \notin Whitespace}
        first == CHOOSE i \in visible : \A j \in visible : i <= j
        last == CHOOSE i \in visible : \A j \in visible : j <= i
    IN  SubSeq(text, first, last)

\* C5: the parser returns the first min(3, n) of the n trimmed non-empty lines
\* of the raw text, in their order, duplicates kept; the example of the
\* specification yields a, b, c.
C5_FirstThreeLinesInOrder ==
    parsed.done =>
        /\ Len(parsed.messages) = Min(MAX_MESSAGES, Cardinality(VisibleLines(response)))
        /\ \A k \in DOMAIN parsed.messages : parsed.messages[k] = VisibleLine(response, k)
        /\ response = ExampleResponse => parsed.messages = <<(<<"a">>), <<"b">>, <<"c">>>>

\* Four visible lines, the first two equal, one of them padded: three are
\* returned and the duplicate is kept.
C5_Witness ==
    /\ parsed.done
    /\ Cardinality(VisibleLines(response)) > MAX_MESSAGES
    /\ Len(parsed.messages) = MAX_MESSAGES
    /\ parsed.messages[1] = parsed.messages[2]
    /\ parsed.messages[3] # parsed.messages[1]

----------------------------------------------------------------------------
(* Properties of generateCommitMessage *)

CredentialProviders == Providers \ {"ollama"}

CalledWithKey == run.providerCalls > 0 /\ gen.callProvider \in CredentialProviders

\* C1: an adapter of a provider that needs a credential is called only if a
\* credential is stored for that provider, and a run that finds no key for the
\* configured provider ends with the missing-key warning before any git call
\* and any provider call.
C1_CallOnlyWithStoredCredential ==
    /\ CalledWithKey => run.secretAtCall # Undefined
    /\ (gen.pc \in {"warnNoKey", "setKeyInput"} \/ gen.outcome = "MissingKey") =>
          /\ run.warnings = 1
          /\ run.gitCalls = 0
          /\ run.providerCalls = 0

\* C2: the apiKey handed to the adapter of a provider is the key stored under
\* the secret name of that provider.
C2_KeyGoesToItsOwnProvider ==
    CalledWithKey => gen.apiKey = run.secretAtCall

\* C3: a staged text that is empty or white space only ends the run with the
\* stage-files warning: no error is reported, analyzeChangeContext and the
\* adapters are not called, history and favorites are not written.
C3_NothingStagedIsNotAFailure ==
    run.blankDiff =>
        /\ gen.pc = "done"
        /\ gen.outcome = "NoStagedChanges"
        /\ run.warnings = 1
        /\ run.errorsReported = 0
        /\ run.analyzeCalls = 0
        /\ run.providerCalls = 0
        /\ run.historyUpdates = 0
        /\ run.favoritesUpdates = 0

\* git diff --staged printed white space only.
C3_Witness ==
    /\ run.blankDiff
    /\ gen.diff # <<>>
    /\ gen.outcome = "NoStagedChanges"
    /\ run.gitCalls = 1

\* C4: a run calls an adapter at most once; a rejected call is reported as one
\* error, is not repeated, presents nothing and writes neither list.
C4_OneCallNoRetry ==
    /\ run.providerCalls <= 1
    /\ run.callFailed =>
          /\ gen.pc = "done"
          /\ gen.outcome = "Error"
          /\ run.providerCalls = 1
          /\ run.errorsReported = 1
          /\ ~run.presented
          /\ run.historyUpdates = 0
          /\ run.favoritesUpdates = 0

\* A rejected call has been reported.
C4_Witness ==
    /\ run.callFailed
    /\ gen.errorKind = "ProviderError"
    /\ Includes(gen.error, AiApiErrorPrefix)
    /\ run.errorsReported = 1

\* C6: an answer without a visible character fails the generation with an
\* error of a kind of its own, which is none of Unauthorized, QuotaExceeded
\* and ProviderError, and no candidates are presented.
C6_BlankAnswerHasItsOwnErrorKind ==
    run.blankResponse =>
        /\ gen.pc = "done"
        /\ gen.outcome = "Error"
        /\ ~run.presented
        /\ gen.errorKind \notin {"Unauthorized", "QuotaExceeded", "ProviderError"}

----------------------------------------------------------------------------
(* Properties of the favorites *)

AddFavoriteStep == lastOp'.op = "addToFavorites"

RemoveFavoriteStep == lastOp'.op = "removeFromFavorites"

OtherThan(list, message) == SelectSeq(list, LAMBDA item : item.message # message)

\* C12: removeFromFavorites leaves no favorite with the message, keeps every
\* other favorite (the entries, not their stored order) and leaves history as
\* it is.
C12_RemoveTakesOnlyTheMessage ==
    [][RemoveFavoriteStep =>
         /\ history' = history
         /\ \E m \in 1..MaxFav :
               /\ lastOp'.present = (m \in FavoriteMessages)
               /\ m \notin Range(Messages(favorites'))
               /\ SameEntries(favorites', OtherThan(favorites, m))]_vars

\* One of two favorites has been removed while history has entries.
C12_Witness ==
    /\ lastOp.op = "removeFromFavorites"
    /\ lastOp.present
    /\ Len(favorites) = 1
    /\ Len(history) > 0

----------------------------------------------------------------------------
(* Properties of the credentials *)

\* C13: no step of selectAIProvider changes a stored key, and a step that
\* changes the key of a provider is taken while that provider is the
\* configured one.
C13_KeysArePerProvider ==
    [][/\ sel' # sel => secrets' = secrets
       /\ \A p \in Providers :
             secrets'[p] # secrets[p] => p = config.provider /\ config' = config]_vars

\* After a switch a key has been stored for the new provider, and the key of
\* openai is still there.
C13_Witness ==
    /\ config.provider # "openai"
    /\ secrets[config.provider] \in Keys
    /\ secrets["openai"] \in Keys
    /\ sel.pc = "idle"
    /\ keyCmd.pc = "idle"

----------------------------------------------------------------------------
(* Properties of analyzeChangeContext *)

\* The files of the listing, and the context after the first k of them.
Files == ChangedFiles(listing.stdout)

ContextAfter(k) == AnalyzeFiles(EmptyContext, SubSeq(Files, 1, k))

Analyzed == analysis.done /\ ~listing.failed

\* The hint of the first rule, in the order core, test, config, docs, that
\* matches the file; "" when none does.
FirstHint(file) ==
    IF IsCorePath(file) THEN "core"
    ELSE IF IsTestPath(file) THEN "test"
    ELSE IF IsConfigPath(file) THEN "config"
    ELSE IF IsDocsPath(file) THEN "docs"
    ELSE ""

\* C14: the scope is set only while it is unset: a file leaves a scope that an
\* earlier file has set as it is, and a file that meets an unset scope sets it
\* to the hint of its first matching rule in the order core, test, config, docs.
C14_ScopeSetOnlyWhileUnset ==
    Analyzed =>
        /\ analysis.context.scope = ContextAfter(Len(Files)).scope
        /\ \A k \in DOMAIN Files :
              ContextAfter(k).scope =
                  IF ContextAfter(k - 1).scope # "" THEN ContextAfter(k - 1).scope
                  ELSE FirstHint(Files[k])

\* ["src/a.ts", "tests/b.spec.ts", "README.md"]
ExamplePaths ==
    <<<<"s", "r", "c", "/", "a", ".", "t", "s">>,
      <<"t", "e", "s", "t", "s", "/", "b", ".", "s", "p", "e", "c", ".", "t", "s">>,
      <<"R", "E", "A", "D", "M", "E", ".", "m", "d">>>>

\* C15: when the first file lies under src or lib the scope is 'core' whatever
\* the later files are, and hasTests and hasDocs tell whether some file meets
\* the test rule and the docs rule; the example list yields hasTests, hasDocs,
\* javascript/typescript and core.
C15_CoreFirstStaysCore ==
    (Analyzed /\ Files # <<>> /\ IsCorePath(Files[1])) =>
        /\ analysis.context.scope = "core"
        /\ analysis.context.hasTests = (\E k \in DOMAIN Files : IsTestPath(Files[k]))
        /\ analysis.context.hasDocs = (\E k \in DOMAIN Files : IsDocsPath(Files[k]))
        /\ Files = ExamplePaths =>
              /\ analysis.context.hasTests
              /\ analysis.context.hasDocs
              /\ analysis.context.language = "javascript/typescript"

\* The example list has been analysed.
C15_Witness ==
    /\ Analyzed
    /\ Files = ExamplePaths
    /\ analysis.context.scope = "core"

Mapped(file) == LanguageOf(Extension(file)) # ""

\* C16: the language is that of the first file whose extension is in the
\* table, and 'unknown' when there is no such file.
C16_FirstLanguageWins ==
    Analyzed =>
        analysis.context.language =
            IF \E k \in DOMAIN Files : Mapped(Files[k])
            THEN LET first == CHOOSE k \in DOMAIN Files :
                                 Mapped(Files[k]) /\ \A j \in 1..(k - 1) : ~Mapped(Files[j])
                 IN  LanguageOf(Extension(Files[first]))
            ELSE "unknown"

NoRepeats(list) == \A i, j \in DOMAIN list : list[i] = list[j] => i = j

\* C17: fileTypes, frameworks and changeTypes hold no element twice.
C17_TagListsHaveNoRepeats ==
    analysis.done =>
        /\ NoRepeats(analysis.context.fileTypes)
        /\ NoRepeats(analysis.context.frameworks)
        /\ NoRepeats(analysis.context.changeTypes)

\* C18: changeTypes holds 'test' iff hasTests, 'config' iff hasConfig, 'docs'
\* iff hasDocs, 'ui' iff frameworks holds 'frontend', 'api' iff frameworks
\* holds 'backend', and nothing else.
C18_ChangeTypesFollowTheFlags ==
    analysis.done =>
        LET context == analysis.context
            types == Range(context.changeTypes)
        IN  /\ ("test" \in types) = context.hasTests
            /\ ("config" \in types) = context.hasConfig
            /\ ("docs" \in types) = context.hasDocs
            /\ ("ui" \in types) = ("frontend" \in Range(context.frameworks))
            /\ ("api" \in types) = ("backend" \in Range(context.frameworks))
            /\ types \subseteq {"test", "config", "docs", "ui", "api"}

\* Some change types are there and others are not.
C18_Witness ==
    /\ Analyzed
    /\ analysis.context.changeTypes = <<"docs", "ui", "api">>
    /\ ~analysis.context.hasTests
    /\ ~analysis.context.hasConfig

----------------------------------------------------------------------------
(* Properties of generateCommitMessage when git fails *)

\* C19: when the listing of the staged paths fails, analyzeChangeContext
\* yields the empty context, no error is reported for it, and the run goes on
\* to the provider call.
C19_ListingFailureDoesNotBlock ==
    run.listingFailed =>
        /\ gen.context = EmptyContext
        /\ run.providerCalls = 1
        /\ gen.pc = "call" => run.errorsReported = 0
        /\ gen.outcome # "Error" => run.errorsReported = 0

\* Candidates have been presented after a failed listing.
C19_Witness ==
    /\ run.listingFailed
    /\ run.presented
    /\ gen.context = EmptyContext
    /\ Len(gen.messages) > 0

\* C20: a 'git diff --staged' that fails with exit status 128 is reported as
\* 'Not a Git repository ...', any other failure as 'Failed to get staged
\* changes: ...'; the run reports that one error, calls no adapter and does
\* not write the history.
C20_GitFailureIsReportedOnce ==
    run.gitExit # 0 =>
        /\ gen.pc = "done"
        /\ gen.outcome = "Error"
        /\ Includes(gen.error, NotARepositoryText) = (run.gitExit = 128)
        /\ Includes(gen.error, StagedChangesFailedPrefix) = (run.gitExit # 128)
        /\ run.errorsReported = 1
        /\ run.warnings = 0
        /\ run.analyzeCalls = 0
        /\ run.providerCalls = 0
        /\ run.historyUpdates = 0
        /\ run.favoritesUpdates = 0

\* The run has ended outside a repository.
C20_Witness ==
    /\ run.gitExit = 128
    /\ gen.pc = "done"
    /\ gen.error = ReportPrefix \o NotARepositoryText

\* C21: when git prints a staged diff of more than 1 MiB, getStagedChanges
\* returns a text of at most 1 MiB and the run goes on with it; the diff put
\* into the prompt is never longer than 1 MiB.
C21_LongDiffIsCapped ==
    /\ run.produced > MAX_BUFFER =>
          /\ gen.outcome # "Error"
          /\ run.errorsReported = 0
          /\ run.analyzeCalls = 1
    /\ run.providerCalls > 0 => Len(gen.diff) <= MAX_BUFFER

----------------------------------------------------------------------------
(* Properties of generateCommitMessagesWithAI *)

GenerationFailed == gen.pc = "done" /\ gen.errorKind # ""

\* C22: a failed generation has one kind: Unauthorized when the text of the
\* rejected call holds '401', else QuotaExceeded when it holds 'quota', else
\* ProviderError with the text of the failure in its message; a failure that
\* is not a rejected call is a ProviderError.
C22_FailureHasOneKind ==
    GenerationFailed =>
        /\ gen.errorKind \in {"Unauthorized", "QuotaExceeded", "ProviderError"}
        /\ (gen.errorKind = "Unauthorized") =
              (run.callFailed /\ Includes(run.rejection, UNAUTHORIZED_MARK))
        /\ (gen.errorKind = "QuotaExceeded") =
              /\ run.callFailed
              /\ ~Includes(run.rejection, UNAUTHORIZED_MARK)
              /\ Includes(run.rejection, QUOTA_MARK)
        /\ (gen.errorKind = "ProviderError" /\ run.callFailed) =>
              gen.error = ReportPrefix \o AiApiErrorPrefix \o run.rejection
        /\ (gen.errorKind = "Unauthorized") => gen.error = ReportPrefix \o InvalidApiKeyText
        /\ (gen.errorKind = "QuotaExceeded") => gen.error = ReportPrefix \o QuotaExceededText

\* A rejection whose text holds both marks has been classified.
C22_Witness ==
    /\ GenerationFailed
    /\ run.callFailed
    /\ Includes(run.rejection, UNAUTHORIZED_MARK)
    /\ Includes(run.rejection, QUOTA_MARK)
    /\ gen.errorKind = "Unauthorized"

----------------------------------------------------------------------------
(* Properties of generateContextAwarePrompt *)

\* The fixed text of a style.
StyleRuleText(professionalism) ==
    CASE professionalism = "simple" -> SimpleRuleText
      [] professionalism = "standard" -> StandardRuleText
      [] professionalism = "professional" -> ProfessionalRuleText
      [] professionalism = "enterprise" -> EnterpriseRuleText

\* C23: the prompt holds the clause of a context field exactly when the field
\* is not empty (change types, language other than 'unknown', frameworks,
\* scope as 'Focus area', and as 'Suggested scope' in the professional style),
\* and in each of the four styles it holds the rule text of the style, the
\* diff and the instruction to give 3 options.
C23_ClausesOnlyForWhatIsThere ==
    prompt.done =>
        LET context == promptInput.context
            text == prompt.text
        IN  /\ Includes(text, ChangeTypesIntro) = (Len(context.changeTypes) > 0)
            /\ Includes(text, LanguageIntro) = (context.language # "unknown")
            /\ Includes(text, FrameworksIntro) = (Len(context.frameworks) > 0)
            /\ Includes(text, FocusAreaIntro) = (context.scope # "")
            /\ Includes(text, SuggestedScopeIntro) =
                  (context.scope # "" /\ promptInput.professionalism = "professional")
            /\ Includes(text, StyleRuleText(promptInput.professionalism))
            /\ Includes(text, ChangesIntro \o promptInput.stagedChanges \o ThreeOptionsText)

\* The prompt of the professional style for the empty context.
C23_Witness ==
    /\ prompt.done
    /\ promptInput.context = EmptyContext
    /\ promptInput.professionalism = "professional"
    /\ prompt.text = BasePromptText \o ProfessionalRuleText \o ChangesIntro
                         \o promptInput.stagedChanges \o ThreeOptionsText

----------------------------------------------------------------------------
(* Properties of a whole run of generateCommitMessage *)

\* The prompt generateCommitMessagesWithAI hands to the adapter while the call
\* is in flight (gen.pc = "call").
SentPrompt == generateContextAwarePrompt(gen.diff, gen.context, gen.professionalism)

\* The run has listed package.json and src/index.ts and has called the
\* adapter, the style being 'standard'.
EndToEndRun ==
    /\ run.providerCalls > 0
    /\ run.listing = Listed(EndToEndPaths)
    /\ gen.professionalism = "standard"

EndToEnd(frameworks) ==
    EndToEndRun =>
        /\ gen.context.hasConfig
        /\ gen.context.frameworks = frameworks
        /\ gen.context.scope = "core"
        /\ gen.context.changeTypes = <<"config">>
        /\ gen.pc = "call" => Includes(SentPrompt, ChoreGuidanceText)
        /\ run.providerCalls = 1
        /\ (~run.callFailed /\ gen.pc # "call" /\ ~run.presented) =>
              Cardinality(VisibleLines(run.answer)) < 3
        /\ (gen.pc = "pick" /\ Cardinality(VisibleLines(run.answer)) >= 3) =>
              /\ Len(gen.messages) = 3
              /\ \A k \in 1..3 : gen.messages[k] = VisibleLine(run.answer, k)

\* C24 as stated: for package.json and src/index.ts in the standard style the
\* context has hasConfig, frameworks ["node-ecosystem"], scope 'core' and
\* changeTypes ["config"], the prompt holds the 'chore:' guidance, the adapter
\* is called once and an answer of at least 3 visible lines yields 3 trimmed
\* candidates.
C24_EndToEndAsStated == EndToEnd(<<"node-ecosystem">>)

\* C24 with the tag the code uses: frameworks is ["node.js"]; everything else
\* as stated.
C24_EndToEndWithNodeJsTag == EndToEnd(<<"node.js">>)

\* Three candidates have been returned out of an answer of four visible lines.
C24_Witness ==
    /\ EndToEndRun
    /\ gen.pc = "pick"
    /\ Cardinality(VisibleLines(run.answer)) = 4
    /\ Len(gen.messages) = 3

----------------------------------------------------------------------------
(* Properties of insertCommitMessage *)

\* The extension, a repository and the input box of the first one are there.
InputBoxAvailable ==
    /\ ins.gitExtension
    /\ ins.exportsUsable
    /\ Len(ins.repositories) > 0
    /\ ins.repositories[1].inputBox

\* The three outcomes, by what the call has left behind.
Inserted ==
    /\ Len(ins.repositories) > 0
    /\ ins.repositories[1].value = ins.message
    /\ ins.shown = <<InsertedText>>

CopiedToClipboard ==
    /\ ins.clipboard = ins.message
    /\ ins.shown \in {<<CopiedText>>, <<CopiedBoxMissingText>>}

Failed == ins.shown = <<CopyFailedText>>

\* No input box but that of the first repository has been written.
OtherBoxesUntouched ==
    \A k \in DOMAIN ins.repositories :
        k > 1 \/ ~ins.repositories[k].inputBox =>
            ins.repositories[k].value \in {DraftText, ""}

\* C25: insertCommitMessage ends in exactly one of Inserted, CopiedToClipboard
\* and Failed: Inserted, with the clipboard untouched, when the git extension,
\* a repository and its input box are available, otherwise CopiedToClipboard,
\* and Failed only when a clipboard write has failed too; it never raises and
\* never both inserts and copies.
C25_ExactlyOneOutcome ==
    /\ ~ins.raised
    /\ ~(Inserted /\ ins.clipboard = ins.message)
    /\ OtherBoxesUntouched
    /\ ins.pc = "done" =>
          /\ Cardinality({o \in {"Inserted", "CopiedToClipboard", "Failed"} :
                             \/ o = "Inserted" /\ Inserted
                             \/ o = "CopiedToClipboard" /\ CopiedToClipboard
                             \/ o = "Failed" /\ Failed}) = 1
          /\ InputBoxAvailable => Inserted /\ ins.clipboard = OldClipboard
          /\ ~InputBoxAvailable => (CopiedToClipboard \/ Failed)
                                      /\ (Len(ins.repositories) > 0 =>
                                             ins.repositories[1].value # ins.message)
          /\ Failed => ~InputBoxAvailable /\ ins.failedWrites > 0
                          /\ ins.clipboard = OldClipboard

\* The first repository has no input box and both clipboard writes have failed.
C25_Witness ==
    /\ ins.pc = "done"
    /\ Failed
    /\ ins.failedWrites = 2
    /\ Len(ins.repositories) = 2
    /\ ins.repositories[2].inputBox

----------------------------------------------------------------------------
(* Properties of overlapping executions of addToCommitHistory *)

BothAddsDone == \A i \in 1..2 : adds[i].pc = "done"

Stored(message) == {k \in DOMAIN history : history[k].message = message}

\* C26: two overlapping executions of addToCommitHistory lose no update and
\* keep the store invariant: when both are done, two distinct messages are
\* both in history, two equal messages have exactly one entry, and history
\* has at most 20 entries.
C26_OverlappingAddsKeepBoth ==
    BothAddsDone =>
        /\ adds[1].message # adds[2].message =>
              Stored(adds[1].message) # {} /\ Stored(adds[2].message) # {}
        /\ adds[1].message = adds[2].message =>
              Cardinality(Stored(adds[1].message)) = 1
        /\ Len(history) <= MAX_HISTORY_ITEMS

----------------------------------------------------------------------------
(* Properties of the entries generateCommitMessage writes *)

\* The entries of a stored list that this run has written for its candidate.
WrittenByRun(list, updates) ==
    IF gen.selected # GenIdle.selected /\ updates > 0
    THEN {k \in DOMAIN list : list[k].message = gen.selected}
    ELSE {}

NamesTheProducer(item) ==
    item.provider = gen.callProvider /\ item.model = gen.callModel

\* C27: the provider and model recorded in a history or favorites entry that
\* generateCommitMessage creates are those that produced the message in that
\* run, also when the configuration changes between the provider call and the
\* selection.
C27_EntryNamesTheProducer ==
    /\ \A k \in WrittenByRun(history, run.historyUpdates) :
          NamesTheProducer(history[k])
    /\ \A k \in WrittenByRun(favorites, run.favoritesUpdates) :
          NamesTheProducer(favorites[k])

\* The run has chosen one of the generated candidates.
CandidateSelected == gen.selected # GenIdle.selected

\* C28: a message enters history only when the user accepts it: history is
\* appended exactly when a candidate is selected and then used,
\* favorited-and-used or copied; dismissing the action menu, choosing 'Recent
\* Messages' or 'Favorite Messages', and using an entry of the two lists
\* leave history unchanged.
C28_HistoryOnlyOnAcceptance ==
    /\ run.historyUpdates > 0 => CandidateSelected
    /\ (gen.pc = "done" /\ run.historyUpdates > 0) => gen.outcome \in {"Used", "Copied"}
    /\ (gen.pc = "done" /\ CandidateSelected /\ gen.outcome \in {"Used", "Copied"}) =>
          gen.selected \in HistoryMessages

----------------------------------------------------------------------------
(* Properties of the provider switch *)

\* selectAIProvider has completed a switch to config.provider.
SwitchCompleted ==
    /\ started.select > 0
    /\ sel.pc = "idle"
    /\ config.provider # DefaultConfiguration.provider

\* The model and the endpoint are those that fit the provider.
Fits(provider, model) == model \in ModelsOffered(provider)

\* What a generation has read at lines 1170-1175, if it has.
GenerationHasRead == gen.callProvider # GenIdle.callProvider

\* C30: after selectAIProvider completes a switch to P the configured model is
\* one selectModel offers for P and the endpoint is P's default; and no
\* concurrent generation sees the configured provider paired with the model
\* or endpoint of the previous provider.
C30_SwitchIsConsistent ==
    /\ SwitchCompleted =>
          /\ Fits(config.provider, config.model)
          /\ config.apiEndpoint = DefaultConfig(config.provider).endpoint
    /\ GenerationHasRead =>
          \/ gen.callProvider = DefaultConfiguration.provider
          \/ gen.callModel # DefaultConfiguration.model

----------------------------------------------------------------------------
(* Properties of the context key *)

\* A registered command has completed and none is running.
CommandCompleted == cmd.pc = "idle" /\ cmd.commands > 0

\* C29: after every registered command completes (set key, clear key, select
\* provider, select model) the context key 'commitAi.apiKeyConfigured' says
\* whether the configured provider is ollama or has a stored key.
C29_ContextKeyFollowsTheKey ==
    CommandCompleted => (cmd.apiKeyConfigured <=> HasApiKey(config, secrets))

====
